---- MODULE Spec2Model ----
(***************************************************************************)
(* Model of the soredowe job execution engine.                             *)
(*                                                                         *)
(*   crates/domain/src/lib.rs          Executor::run, TXN_MUTEX,           *)
(*                                     CancelToken, the value types        *)
(*   crates/backend_pacman/src/lib.rs  PacmanCli::run_stream               *)
(*   crates/backend_aur/src/lib.rs     AurBackend::refresh/install/remove  *)
(*   crates/app_ui/src/state.rs        Store::dispatch                     *)
(*   crates/app_shell/src/main.rs      the watcher thread and its callback *)
(*                                                                         *)
(* The Executor takes its two providers as `Arc<dyn PackageBackend>`.  In  *)
(* Spec and SpecTwoWorkers a provider call is modelled by the              *)
(* PackageBackend contract (it blocks, may send Progress lines on the      *)
(* sink, and returns Ok or Err); in SpecStream it is the code of PacmanCli *)
(* and AurBackend, with callers that may cancel.  SpecSelection, SpecLog,  *)
(* SpecIssue and SpecStore are the Store alone, given actions by its       *)
(* environment.  SpecWatch is the watcher callback, given notifications    *)
(* while the clock runs.  SpecFair is Spec with a worker thread that runs  *)
(* whenever it can.  SpecApp is the program of main(): the Store given the *)
(* user's intents, the watcher's signals, the Executor, and the render     *)
(* tick that feeds the channels to the Store, worker and tick being fair.  *)
(*                                                                         *)
(* The three channels are unbounded and stay connected: main() keeps the   *)
(* job sender in the Store and both receivers in the render closure for    *)
(* the life of the process, so no send of the Executor fails and recv()    *)
(* never reports a disconnect.                                             *)
(*                                                                         *)
(* Strings the code inspects (queries, package names) are sequences of     *)
(* characters; byte length and ordering are computed on their UTF-8        *)
(* encoding, as str::len and String::cmp do.  Strings the code only        *)
(* passes on (error messages, log lines) are TLA+ strings.                 *)
(***************************************************************************)
EXTENDS Integers, Sequences, FiniteSets, TLC

\* Number of jobs the environment submits in one behaviour.
MaxJobs == 2

\* Number of Progress lines the providers send on the sink in one behaviour.
MaxProviderLines == 1

\* Number of jobs submitted in one behaviour of the providers' specification.
MaxStreamJobs == 1

\* Number of jobs the Store sends in one behaviour.
MaxStoreJobs == 3

\* Number of Progress actions with a log line the Store is given in one
\* behaviour.
MaxLogLines == 5

\* Number of actions the Store is given in one behaviour of SpecStore.
MaxDispatches == 4

\* How far the clock runs in one behaviour of the watcher, in units of 100 ms.
MaxTime == 14

\* Number of notifications that reach the debounce in one behaviour.
MaxEvents == 6

\* Number of user intents and watcher signals in one behaviour of the
\* application.
MaxIntents == 3

VARIABLES
    jobs,       \* the job channel: chan::unbounded::<Job>()
    submitted,  \* history: every job sent on the job channel, in order
    pc,         \* per worker thread: position in the loop of Executor::run
    cur,        \* per worker: `job`, the job being processed
    call,       \* per worker: the backend call it is blocked in
    nlines,     \* number of Progress lines the providers have sent
    any_ok,     \* per worker: local `any_ok` of the Search arm
    items,      \* per worker: local `items` of the Search / Upgrades arm
    res,        \* per worker: `res`, the value run_job() returned
    lock,       \* TXN_MUTEX: 0 when free, else the worker holding the guard
    prog,       \* the progress channel (tx_prog / sink)
    evt,        \* the event channel (tx_evt)
    trace,      \* history: every send, backend call and return, in order
    cancelled,  \* the CancelTokens whose AtomicBool holds true
    frame,      \* the provider call in progress: where it is, what it returns
    child,      \* per job: the subprocess its provider call spawned
    killed,     \* history: the jobs whose subprocess was sent SIGTERM
    interrupted, \* history: the jobs cancelled while their call waited on its subprocess
    helpers,    \* per job: the threads t1 and t2 of run_stream
    state,      \* Store.state: the AppState
    next_id,    \* Store.next_id
    holders,    \* who holds a clone of the CancelToken of each job the Store sent
    appended,   \* history: every log line the Store was given, newline included
    panicked,   \* a dispatch panicked: the UI thread is gone
    dispatched, \* history: the number of actions given to the Store, where counted
    now,        \* the monotonic clock Instant::now() reads, in units of 100 ms
    last,       \* the watcher callback's `last`
    watch,      \* the watch channel (tx_watch): the number of signals in it
    seen        \* history: each notification that reached the debounce, and when

\* The variables of Executor::run.
execVars == <<jobs, submitted, pc, cur, call, nlines, any_ok, items, res, lock, prog, evt, trace>>

\* The variables of the providers, and the cancellation flags.
providerVars == <<cancelled, frame, child, killed, interrupted, helpers>>

\* The variables of the Store.
storeVars == <<state, next_id, holders, appended, panicked, dispatched>>

\* The variables of the change watcher.
watchVars == <<now, last, watch, seen>>

vars == <<execVars, providerVars, storeVars, watchVars>>

Workers == DOMAIN pc

--------------------------------------------------------------------------
(* Strings *)

\* Characters of the modelled strings.  "E9" stands for U+00E9, a character
\* whose UTF-8 encoding is two bytes long.
\* "A" is an upper-case letter and "LF" the newline.
Chars == {" ", "-", "a", "b", "c", "E9", "A", "LF"}

Utf8(c) ==
    CASE c = " "  -> <<32>>
      [] c = "-"  -> <<45>>
      [] c = "a"  -> <<97>>
      [] c = "b"  -> <<98>>
      [] c = "c"  -> <<99>>
      [] c = "E9" -> <<195, 169>>
      [] c = "A"  -> <<65>>
      [] c = "LF" -> <<10>>

IsWhitespace(c) == c = " "

RECURSIVE Bytes(_)
Bytes(s) == IF s = <<>> THEN <<>> ELSE Utf8(Head(s)) \o Bytes(Tail(s))

\* str::len: the length in bytes.
StrLen(s) == Len(Bytes(s))

RECURSIVE TrimStart(_)
TrimStart(s) ==
    IF s # <<>> /\ IsWhitespace(Head(s)) THEN TrimStart(Tail(s)) ELSE s

RECURSIVE TrimEnd(_)
TrimEnd(s) ==
    IF s # <<>> /\ IsWhitespace(s[Len(s)])
    THEN TrimEnd(SubSeq(s, 1, Len(s) - 1))
    ELSE s

\* str::trim
Trim(s) == TrimEnd(TrimStart(s))

RECURSIVE BytesLess(_, _)
BytesLess(a, b) ==
    IF b = <<>> THEN FALSE
    ELSE IF a = <<>> THEN TRUE
    ELSE IF Head(a) # Head(b) THEN Head(a) < Head(b)
    ELSE BytesLess(Tail(a), Tail(b))

\* String::cmp(a, b) = Less: lexicographic on the bytes.
StrLess(a, b) == BytesLess(Bytes(a), Bytes(b))

--------------------------------------------------------------------------
(* Domain values *)

Sources == {"Repo", "Aur"}

PackageId(n, s) == [name |-> n, source |-> s]

NoPackage == [name |-> <<>>, source |-> "None"]

PackageSummary(n, s) ==
    [id |-> PackageId(n, s), description |-> <<>>, installed |-> FALSE, popular |-> <<>>]

JobKinds ==
    {"Refresh", "Search", "Details", "Install", "Remove", "Upgrades", "Upgrade", "UpgradeAll"}

MutatingKinds == {"Install", "Remove", "Upgrade", "UpgradeAll"}

PayloadNone == [tag |-> "None", q |-> <<>>, pkg |-> NoPackage]
PayloadQuery(q) == [tag |-> "Query", q |-> q, pkg |-> NoPackage]
PayloadPackage(id) == [tag |-> "Package", q |-> <<>>, pkg |-> id]

Job(id, kind, payload, cancel) ==
    [id |-> id, kind |-> kind, payload |-> payload, cancel |-> cancel]

NoJob == Job(0, "None", PayloadNone, 0)

\* Error and its Display (thiserror's #[error(...)] strings).
Error(tag, msg) == [tag |-> tag, msg |-> msg]

ErrToString(e) ==
    CASE e.tag = "Network"   -> "network: " \o e.msg
      [] e.tag = "Alpm"      -> "alpm: " \o e.msg
      [] e.tag = "Aur"       -> "aur: " \o e.msg
      [] e.tag = "Priv"      -> "privilege: " \o e.msg
      [] e.tag = "Cancelled" -> "cancelled"
      [] e.tag = "Internal"  -> "internal: " \o e.msg

\* Result<T>: ok with a value, or an error.
Ok(v) == [ok |-> TRUE, val |-> v, err |-> Error("None", "")]
Err(e) == [ok |-> FALSE, val |-> <<>>, err |-> e]

Progress(job_id, stage, percent, log, warning) ==
    [job_id |-> job_id, stage |-> stage, percent |-> percent, bytes |-> "None",
     log |-> log, warning |-> warning]

\* Option<String>::None for Progress.log and Option<f32>::None for percent.
None == "None"

EventSearchResults(q, its) == [tag |-> "SearchResults", query |-> q, items |-> its]
EventDetails(item) == [tag |-> "Details", query |-> <<>>, items |-> <<item>>]
EventUpgrades(its) == [tag |-> "Upgrades", query |-> <<>>, items |-> its]
EventSystemChanged == [tag |-> "SystemChanged", query |-> <<>>, items |-> <<>>]

--------------------------------------------------------------------------
(* Inputs *)

JobIds == {1, 2}

Queries == { <<>>, <<" ", "a", " ">>, <<" ", "E9">> }

Packages == { PackageId(<<"a">>, "Repo"), PackageId(<<"a">>, "Aur") }

\* The jobs a caller may enqueue.  The arms of Upgrades and UpgradeAll never
\* read the payload, only the Search arm reads a query, and it reads nothing
\* of a Package.
JobInputs ==
    ({"Refresh", "Details", "Install", "Remove", "Upgrade"}
        \X ({PayloadNone} \cup {PayloadPackage(p) : p \in Packages}))
    \cup ({"Search"} \X ({PayloadNone, PayloadPackage(PackageId(<<"a">>, "Repo"))}
                            \cup {PayloadQuery(q) : q \in Queries}))
    \cup ({"Upgrades", "UpgradeAll"} \X {PayloadNone})

\* What a provider may return from search / upgrades: its own items, in the
\* order the provider produced them.
ProviderItems(b) ==
    IF b = "repo"
    THEN { <<PackageSummary(<<"b">>, "Repo"), PackageSummary(<<"a">>, "Repo")>> }
    ELSE { <<PackageSummary(<<"a", "-", "b">>, "Aur"), PackageSummary(<<"a">>, "Aur")>> }

\* The errors a provider call may return.
ProviderErrors == { Error("Network", "timeout"), Error("Cancelled", "") }

ListOutcomes(b) == {Ok(v) : v \in ProviderItems(b)} \cup {Err(e) : e \in ProviderErrors}

UnitOutcomes == {Ok(<<>>)} \cup {Err(e) : e \in ProviderErrors}

DetailsOutcomes(id) ==
    {Ok(<<PackageSummary(id.name, id.source)>>)} \cup {Err(e) : e \in ProviderErrors}

--------------------------------------------------------------------------
(* Executor::run: the pieces of one loop iteration *)

\* A lock() that never waits.
LockIsFreeAlways(l) == TRUE

\* TXN_MUTEX.lock() returns only when no guard is alive.
LockIsFree(l) == l = 0

\* A choice that ignores the payload.
pickRepo(payload) == "repo"

\* The closure `pick`.
pick(payload) ==
    IF payload.tag = "Package" /\ payload.pkg.source = "Aur" THEN "aur" ELSE "repo"

\* A receive that takes the newest job.
RecvNewest(q) == [job |-> q[Len(q)], rest |-> SubSeq(q, 1, Len(q) - 1)]

\* `while let Ok(job) = self.rx_jobs.recv()`: the channel is FIFO.
Recv(q) == [job |-> Head(q), rest |-> Tail(q)]

\* A Queued Progress with job_id 0, as the providers fill it in.
QueuedProgressNoId(job) == Progress(0, "Queued", None, None, FALSE)

\* The first send of an iteration.
QueuedProgress(job) == Progress(job.id, "Queued", None, None, FALSE)

\* A warning line with job_id 0, as the providers fill it in.
WarningProgressNoId(job, stage, label, e) ==
    Progress(0, stage, None, label \o " failed: " \o ErrToString(e), TRUE)

\* The warning line of a fan-out arm: format!("{label} failed: {e}").
WarningProgress(job, stage, label, e) ==
    Progress(job.id, stage, None, label \o " failed: " \o ErrToString(e), TRUE)

\* A terminal Progress that never sets `warning`.
TerminalProgressNoWarning(job, r) ==
    Progress(job.id,
             IF r.ok THEN "Finished" ELSE "Failed",
             "1.0",
             IF r.ok THEN None ELSE ErrToString(r.err),
             FALSE)

\* The last send of an iteration.
TerminalProgress(job, r) ==
    Progress(job.id,
             IF r.ok THEN "Finished" ELSE "Failed",
             "1.0",
             IF r.ok THEN None ELSE ErrToString(r.err),
             ~r.ok)

\* The query taken as it is, without trim().
SearchQueryUntrimmed(payload) == IF payload.tag = "Query" THEN payload.q ELSE <<>>

\* The query of the Search arm: the payload's query trimmed, or the empty
\* string when the payload is no Query.
SearchQuery(payload) == IF payload.tag = "Query" THEN Trim(payload.q) ELSE <<>>

\* `if q.len() < 2`
QueryTooShort(q) == StrLen(q) < 2

\* Insertion of x after every element that is not greater than it.
RECURSIVE InsertByNameBeforeEqual(_, _)
InsertByNameBeforeEqual(x, s) ==
    IF s = <<>> THEN <<x>>
    ELSE IF ~StrLess(Head(s).id.name, x.id.name) THEN <<x>> \o s
    ELSE <<Head(s)>> \o InsertByNameBeforeEqual(x, Tail(s))

RECURSIVE InsertByName(_, _)
InsertByName(x, s) ==
    IF s = <<>> THEN <<x>>
    ELSE IF StrLess(x.id.name, Head(s).id.name) THEN <<x>> \o s
    ELSE <<Head(s)>> \o InsertByName(x, Tail(s))

\* No sort: the items in the order the providers returned them.
Unsorted(s) == s

\* items.sort_by(|a, b| a.id.name.cmp(&b.id.name)): a stable sort.
RECURSIVE SortByName(_)
SortByName(s) ==
    IF s = <<>> THEN <<>>
    ELSE InsertByName(s[Len(s)], SortByName(SubSeq(s, 1, Len(s) - 1)))

\* A Search arm without the any_ok test.
SearchNeverFails(ok) == FALSE

\* `if !any_ok { return Err(Error::Alpm("all backends failed")) }`
SearchFailed(ok) == ~ok

AllBackendsFailed == Error("Alpm", "all backends failed")

\* A match that leaves out JobKind::UpgradeAll.
PublishesSystemChangedNoUpgradeAll(kind) == kind \in {"Install", "Remove", "Upgrade"}

\* The kinds after which a successful job publishes SystemChanged.
PublishesSystemChanged(kind) == kind \in MutatingKinds

\* A line a provider sends on the sink during a call: both providers fill in
\* job_id 0.
ProviderProgress(op) ==
    Progress(0,
             CASE op = "refresh" -> "Refreshing"
               [] op = "search" -> "Searching"
               [] op = "upgrades" -> "Verifying"
               [] op = "remove" -> "Removing"
               [] OTHER -> "Installing",
             None, "provider output", TRUE)

\* The backend method of a mutating job kind.
OpOf(kind) ==
    CASE kind = "Install" -> "install"
      [] kind = "Remove" -> "remove"
      [] kind = "Upgrade" -> "upgrade"
      [] kind = "UpgradeAll" -> "upgrade_all"
      [] kind = "Refresh" -> "refresh"
      [] kind = "Search" -> "search"
      [] kind = "Details" -> "details"
      [] kind = "Upgrades" -> "upgrades"

MutatingOps == {"install", "remove", "upgrade", "upgrade_all"}

NoCall == [backend |-> "none", op |-> "none"]
Call(b, op) == [backend |-> b, op |-> op]

--------------------------------------------------------------------------
(* CancelToken, and the pieces of the two providers *)

\* A cancel that flips the flag: fetch_xor(true).
cancelFlip(c, t) == IF t \in c THEN c \ {t} ELSE c \cup {t}

\* CancelToken::cancel: self.0.store(true, SeqCst).  Every clone of a token
\* holds the same Arc, so the flag is one cell per token.
cancel(c, t) == c \cup {t}

\* CancelToken::is_cancelled: self.0.load(SeqCst).
is_cancelled(c, t) == t \in c

\* The operations of PacmanCli that go through run_stream.
StreamOps == {"refresh", "install", "remove", "upgrade", "upgrade_all"}

\* The operations of AurBackend that run an external command to its end.
AurCommandOps == {"install", "remove"}

\* The exit codes a subprocess may end with.
ExitCodes == {0, 1}

Running == [running |-> TRUE, code |-> 0]
Exited(code) == [running |-> FALSE, code |-> code]
NoChild == [running |-> FALSE, code |-> -1]

\* No provider call is in progress.
NoFrame == [at |-> "none", r |-> Ok(<<>>)]

\* The stage run_stream is given by each operation.
StreamStage(op) ==
    CASE op = "refresh" -> "Refreshing"
      [] op = "remove"  -> "Removing"
      [] OTHER          -> "Installing"

\* The Progress a helper thread of run_stream sends for one line: t1 reads
\* stdout, t2 reads stderr and marks its lines as warnings.
StreamProgress(op, k) == Progress(0, StreamStage(op), None, "line", k = 2)

\* A poll that never looks at the token.
SeesCancelNever(c, t) == FALSE

\* The poll of run_stream: `if cancel.is_cancelled()` in the Ok(None) arm.
SeesCancel(c, t) == is_cancelled(c, t)

\* What an operation of PacmanCli makes of run_stream's result: `?`, then the
\* exit code.
RepoResult(op, r) ==
    IF ~r.ok THEN r
    ELSE IF r.val[1] = 0 THEN Ok(<<>>)
    ELSE CASE op = "refresh"     -> Err(Error("Alpm", "pacman -Sy exit 1"))
           [] op = "install"     -> Err(Error("Priv", "install exit 1"))
           [] op = "remove"      -> Err(Error("Priv", "remove exit 1"))
           [] op = "upgrade"     -> Err(Error("Priv", "upgrade exit 1"))
           [] op = "upgrade_all" -> Err(Error("Priv", "upgrade-all exit 1"))

\* What AurBackend makes of the exit status of its command.
AurResult(op, code) ==
    IF code = 0 THEN Ok(<<>>)
    ELSE IF op = "install" THEN Err(Error("Aur", "makepkg failed"))
    ELSE Err(Error("Priv", "remove failed"))

--------------------------------------------------------------------------
(* The Store: AppState and the pieces of Store::dispatch *)

\* MAX_LOG, the capacity of progress_log in bytes.  The code has 256 * 1024;
\* dispatch only compares it with lengths, and the model scales it down.
MAX_LOG == 4

\* AppState::default(), with SortMode::default() = Popularity.
AppStateDefault ==
    [query |-> <<>>, results |-> <<>>, selected |-> NoPackage,
     filter_repo |-> FALSE, filter_aur |-> FALSE, filter_installed |-> FALSE,
     sort |-> "Popularity", progress_log |-> <<>>, error |-> None,
     log_expanded |-> FALSE, in_upgrades_view |-> FALSE]

\* The AppState Store::new starts with.
StoreNew ==
    [AppStateDefault EXCEPT !.filter_repo = TRUE, !.filter_aur = TRUE, !.sort = "NameAsc"]

SortModes == {"NameAsc", "NameDesc", "Popularity"}

ToLowerChar(c) == IF c = "A" THEN "a" ELSE c

\* str::to_lowercase
ToLower(s) == [i \in 1..Len(s) |-> ToLowerChar(s[i])]

\* str::contains
Contains(hay, needle) ==
    \E i \in 0..(Len(hay) - Len(needle)) : SubSeq(hay, i + 1, i + Len(needle)) = needle

\* The first filter of the SearchResults arm; q is s.query.to_lowercase().
MatchesQuery(q, x) ==
    \/ q = <<>>
    \/ Contains(ToLower(x.id.name), q)
    \/ Contains(ToLower(x.description), q)

\* The two filters with the source filter passing both sources.
PassesFiltersAnySource(st, x) ==
    /\ st.filter_repo \/ st.filter_aur
    /\ st.filter_installed => x.installed

\* The source filter and the installed filter of both arms.
PassesFilters(st, x) ==
    /\ \/ st.filter_repo /\ x.id.source = "Repo"
       \/ st.filter_aur /\ x.id.source = "Aur"
    /\ st.filter_installed => x.installed

\* popular.unwrap_or(0)
PopularOr0(x) == IF x.popular = <<>> THEN 0 ELSE x.popular[1]

\* The comparators with a missing popularity counted below every popularity.
SortsBeforeMissingLast(mode, a, b) ==
    LET pop(x) == IF x.popular = <<>> THEN -1 ELSE x.popular[1] IN
    CASE mode = "NameAsc"    -> StrLess(a.id.name, b.id.name)
      [] mode = "NameDesc"   -> StrLess(b.id.name, a.id.name)
      [] mode = "Popularity" -> pop(b) < pop(a)

\* The comparator of each sort mode says Less.
SortsBefore(mode, a, b) ==
    CASE mode = "NameAsc"    -> StrLess(a.id.name, b.id.name)
      [] mode = "NameDesc"   -> StrLess(b.id.name, a.id.name)
      [] mode = "Popularity" -> PopularOr0(b) < PopularOr0(a)

RECURSIVE InsertBy(_, _, _)
InsertBy(mode, x, s) ==
    IF s = <<>> THEN <<x>>
    ELSE IF SortsBefore(mode, x, Head(s)) THEN <<x>> \o s
    ELSE <<Head(s)>> \o InsertBy(mode, x, Tail(s))

\* v.sort_by(..) under s.sort: a stable sort.
RECURSIVE SortBy(_, _)
SortBy(mode, v) ==
    IF v = <<>> THEN <<>>
    ELSE InsertBy(mode, v[Len(v)], SortBy(mode, SubSeq(v, 1, Len(v) - 1)))

\* s.results.iter().any(|r| r.id == *sel)
HasId(results, id) == \E i \in 1..Len(results) : results[i].id = id

\* Event::SearchResults with the new items put after the old results.
AfterSearchResultsAppends(st, its) ==
    LET q == ToLower(st.query)
        v == SelectSeq(its, LAMBDA x : MatchesQuery(q, x) /\ PassesFilters(st, x))
        r == st.results \o SortBy(st.sort, v)
    IN [st EXCEPT !.in_upgrades_view = FALSE,
                  !.results = r,
                  !.selected = IF st.selected # NoPackage /\ ~HasId(r, st.selected)
                               THEN NoPackage ELSE st.selected]

\* Event::SearchResults { items, .. }: query filter, source and installed
\* filters, sort; then the selection is dropped if it is no longer listed.
AfterSearchResults(st, its) ==
    LET q == ToLower(st.query)
        v == SelectSeq(its, LAMBDA x : MatchesQuery(q, x) /\ PassesFilters(st, x))
        r == SortBy(st.sort, v)
    IN [st EXCEPT !.in_upgrades_view = FALSE,
                  !.results = r,
                  !.selected = IF st.selected # NoPackage /\ ~HasId(r, st.selected)
                               THEN NoPackage ELSE st.selected]

\* Event::Upgrades { items }: source and installed filters, sort; then
\* `s.selected = None`.
AfterUpgrades(st, its) ==
    LET v == SelectSeq(its, LAMBDA x : PassesFilters(st, x))
    IN [st EXCEPT !.in_upgrades_view = TRUE,
                  !.results = SortBy(st.sort, v),
                  !.selected = NoPackage]

\* String::is_char_boundary(n), for 0 <= n <= len.
IsCharBoundary(s, n) == \E k \in 0..Len(s) : StrLen(SubSeq(s, 1, k)) = n

\* String::drain(..n) where n is a char boundary: what is left.
Drained(s, n) ==
    LET k == CHOOSE k \in 0..Len(s) : StrLen(SubSeq(s, 1, k)) = n
    IN SubSeq(s, k + 1, Len(s))

\* l.push('\n'); s.progress_log.push_str(&l)
Pushed(log, l) == log \o l \o <<"LF">>

\* The number of bytes Action::Progress drains after the push.
Cut(log) == IF StrLen(log) > MAX_LOG THEN StrLen(log) - MAX_LOG ELSE 0

--------------------------------------------------------------------------
(* The change watcher: the pieces of the notify callback *)

\* `let cooldown = Duration::from_millis(1200)`, in units of 100 ms.
cooldown == 12

\* LOCAL_DB = "/var/lib/pacman/local", as the components of the path.
LOCAL_DB == <<"var", "lib", "pacman", "local">>

\* Path::starts_with: base is a prefix of p, component by component.
starts_with(p, base) == Len(p) >= Len(base) /\ SubSeq(p, 1, Len(base)) = base

\* Path::parent: the path without its last component; none for the root.
parent(p) == IF p = <<>> THEN None ELSE SubSeq(p, 1, Len(p) - 1)

\* Path::file_name: the last component; none for the root.
file_name(p) == IF p = <<>> THEN None ELSE p[Len(p)]

\* The kinds of notify::EventKind the model tells apart.
EventKinds ==
    { "Create(Folder)", "Remove(Folder)", "Modify(Name)", "Create(File)", "Remove(File)",
      "Modify(Data)", "Modify(Metadata)", "Access", "Create(Any)" }

\* `let is_meaningful_kind = matches!(ev.kind, ..)`
is_meaningful_kind(kind) ==
    kind \in { "Create(Folder)", "Remove(Folder)", "Modify(Name)", "Create(File)", "Remove(File)" }

\* The relevance test without the test of the parent: a folder anywhere
\* under the root counts.
relevantAnyDepth(ev) ==
    \E i \in 1..Len(ev.paths) :
        LET p == ev.paths[i] IN
           /\ starts_with(p, LOCAL_DB)
           /\ CASE ev.kind \in {"Create(Folder)", "Remove(Folder)", "Modify(Name)"} -> TRUE
                [] ev.kind \in {"Create(File)", "Remove(File)"} -> file_name(p) = "desc"
                [] OTHER -> FALSE

\* `let relevant = ev.paths.iter().any(|p| ..)`
relevant(ev) ==
    \E i \in 1..Len(ev.paths) :
        LET p == ev.paths[i] IN
           /\ starts_with(p, LOCAL_DB)
           /\ CASE ev.kind \in {"Create(Folder)", "Remove(Folder)"} -> parent(p) = LOCAL_DB
                [] ev.kind = "Modify(Name)" -> TRUE
                [] ev.kind \in {"Create(File)", "Remove(File)"} -> file_name(p) = "desc"
                [] OTHER -> FALSE

\* The debounce with no cooldown.
DebounceNever(t, l) == TRUE

\* `now.duration_since(last) >= cooldown`
DebouncePassed(t, l) == t - l >= cooldown

--------------------------------------------------------------------------
(* History *)

\* One entry of the history.  `job` is the CancelToken of the job, which is
\* minted fresh per job and so identifies it even when ids repeat: the job
\* with token n is submitted[n].
SentProgress(job, by, p) == [job |-> job.cancel, by |-> by, act |-> "progress", p |-> p]
SentEvent(job, e) == [job |-> job.cancel, by |-> "executor", act |-> "event", p |-> e]
Called(job, c) == [job |-> job.cancel, by |-> "executor", act |-> "call", p |-> c]
Returned(job, c, r) ==
    [job |-> job.cancel, by |-> c.backend, act |-> "ret", p |-> [call |-> c, r |-> r]]

--------------------------------------------------------------------------
(* Initial states *)

InitWorkers(ws) ==
    /\ jobs = <<>>
    /\ submitted = <<>>
    /\ pc = [w \in ws |-> "recv"]
    /\ cur = [w \in ws |-> NoJob]
    /\ call = [w \in ws |-> NoCall]
    /\ nlines = 0
    /\ any_ok = [w \in ws |-> FALSE]
    /\ items = [w \in ws |-> <<>>]
    /\ res = [w \in ws |-> Ok(<<>>)]
    /\ lock = 0
    /\ prog = <<>>
    /\ evt = <<>>
    /\ trace = <<>>
    /\ cancelled = {}
    /\ frame = NoFrame
    /\ child = [t \in 1..MaxJobs |-> NoChild]
    /\ killed = {}
    /\ interrupted = {}
    /\ helpers = [t \in 1..MaxJobs |-> <<"none", "none">>]
    /\ state = StoreNew
    /\ next_id = 1
    /\ holders = {}
    /\ appended = <<>>
    /\ panicked = FALSE
    /\ dispatched = 0
    /\ now = 0
    /\ last = now - cooldown
    /\ watch = 0
    /\ seen = <<>>

\* main() starts one Executor, and Executor::run spawns one thread.
Init == InitWorkers({1})

\* Two Executors in one process, fed from one job channel.
InitTwoWorkers == InitWorkers({1, 2})

--------------------------------------------------------------------------
(* Actions *)

\* A caller enqueues a job out of S, with a fresh CancelToken:
\* tx_jobs.send(Job { id, kind, payload, created_at, cancel }).
SubmitFrom(S) ==
    /\ Len(submitted) < MaxJobs
    /\ \E id \in JobIds, kp \in S :
          LET job == Job(id, kp[1], kp[2], Len(submitted) + 1) IN
             /\ jobs' = Append(jobs, job)
             /\ submitted' = Append(submitted, job)
    /\ UNCHANGED <<pc, cur, call, nlines, any_ok, items, res, lock, prog, evt, trace>>

Submit == SubmitFrom(JobInputs)

\* A caller that enqueues mutating jobs only.
SubmitMutating == SubmitFrom({kp \in JobInputs : kp[1] \in MutatingKinds})

\* A receive after which the jobs still waiting are gone.
DequeueDropsWaiting(w) ==
    /\ pc[w] = "recv"
    /\ jobs # <<>>
    /\ LET job == Recv(jobs).job IN
          /\ jobs' = <<>>
          /\ cur' = [cur EXCEPT ![w] = job]
          /\ prog' = Append(prog, QueuedProgress(job))
          /\ trace' = Append(trace, SentProgress(job, "executor", QueuedProgress(job)))
    /\ pc' = [pc EXCEPT ![w] = "run"]
    /\ UNCHANGED <<submitted, call, nlines, any_ok, items, res, lock, evt>>

\* rx_jobs.recv() returns a job and the Queued Progress is sent.
Dequeue(w) ==
    /\ pc[w] = "recv"
    /\ jobs # <<>>
    /\ LET job == Recv(jobs).job IN
          /\ jobs' = Recv(jobs).rest
          /\ cur' = [cur EXCEPT ![w] = job]
          /\ prog' = Append(prog, QueuedProgress(job))
          /\ trace' = Append(trace, SentProgress(job, "executor", QueuedProgress(job)))
    /\ pc' = [pc EXCEPT ![w] = "run"]
    /\ UNCHANGED <<submitted, call, nlines, any_ok, items, res, lock, evt>>

\* The worker enters a backend call.
Enter(w, c, tr) ==
    /\ pc' = [pc EXCEPT ![w] = "call"]
    /\ call' = [call EXCEPT ![w] = c]
    /\ trace' = Append(tr, Called(cur[w], c))
    /\ UNCHANGED nlines

\* run_job() returns r.
Leave(w, r) ==
    /\ pc' = [pc EXCEPT ![w] = "post"]
    /\ call' = [call EXCEPT ![w] = NoCall]
    /\ res' = [res EXCEPT ![w] = r]

\* JobKind::Refresh => pick(&job.payload).refresh(&sink, &cancel)
StartRefresh(w) ==
    /\ pc[w] = "run"
    /\ cur[w].kind = "Refresh"
    /\ Enter(w, Call(pick(cur[w].payload), "refresh"), trace)
    /\ UNCHANGED <<jobs, submitted, cur, any_ok, items, res, lock, prog, evt>>

\* JobKind::Search with q.len() < 2: an empty SearchResults, no provider.
SearchShort(w) ==
    /\ pc[w] = "run"
    /\ cur[w].kind = "Search"
    /\ LET q == SearchQuery(cur[w].payload) IN
          /\ QueryTooShort(q)
          /\ evt' = Append(evt, EventSearchResults(q, <<>>))
          /\ trace' = Append(trace, SentEvent(cur[w], EventSearchResults(q, <<>>)))
    /\ Leave(w, Ok(<<>>))
    /\ UNCHANGED <<jobs, submitted, cur, nlines, any_ok, items, lock, prog>>

\* JobKind::Search otherwise: any_ok = false, items = [], repo.search(..).
StartSearch(w) ==
    /\ pc[w] = "run"
    /\ cur[w].kind = "Search"
    /\ ~QueryTooShort(SearchQuery(cur[w].payload))
    /\ any_ok' = [any_ok EXCEPT ![w] = FALSE]
    /\ items' = [items EXCEPT ![w] = <<>>]
    /\ Enter(w, Call("repo", "search"), trace)
    /\ UNCHANGED <<jobs, submitted, cur, res, lock, prog, evt>>

\* JobKind::Details: the call when the payload is a Package, else Ok(()).
StartDetails(w) ==
    /\ pc[w] = "run"
    /\ cur[w].kind = "Details"
    /\ IF cur[w].payload.tag = "Package"
       THEN /\ Enter(w, Call(pick(cur[w].payload), "details"), trace)
            /\ UNCHANGED res
       ELSE /\ Leave(w, Ok(<<>>))
            /\ UNCHANGED <<nlines, trace>>
    /\ UNCHANGED <<jobs, submitted, cur, any_ok, items, lock, prog, evt>>

\* JobKind::Install | Remove | Upgrade: the guard is taken first; then the
\* call when the payload is a Package, else Ok(()) and the guard is dropped.
StartMutating(w) ==
    /\ pc[w] = "run"
    /\ cur[w].kind \in {"Install", "Remove", "Upgrade"}
    /\ LockIsFree(lock)
    /\ IF cur[w].payload.tag = "Package"
       THEN /\ lock' = w
            /\ Enter(w, Call(pick(cur[w].payload), OpOf(cur[w].kind)), trace)
            /\ UNCHANGED res
       ELSE /\ Leave(w, Ok(<<>>))
            /\ UNCHANGED <<lock, nlines, trace>>
    /\ UNCHANGED <<jobs, submitted, cur, any_ok, items, prog, evt>>

\* JobKind::UpgradeAll: the guard, then repo.upgrade_all(..).
StartUpgradeAll(w) ==
    /\ pc[w] = "run"
    /\ cur[w].kind = "UpgradeAll"
    /\ LockIsFree(lock)
    /\ lock' = w
    /\ Enter(w, Call("repo", "upgrade_all"), trace)
    /\ UNCHANGED <<jobs, submitted, cur, any_ok, items, res, prog, evt>>

\* JobKind::Upgrades: items = [], repo.upgrades(..).
StartUpgrades(w) ==
    /\ pc[w] = "run"
    /\ cur[w].kind = "Upgrades"
    /\ items' = [items EXCEPT ![w] = <<>>]
    /\ Enter(w, Call("repo", "upgrades"), trace)
    /\ UNCHANGED <<jobs, submitted, cur, any_ok, res, lock, prog, evt>>

\* The provider sends a Progress line on the sink while the call runs.
ProviderLine(w) ==
    /\ pc[w] = "call"
    /\ nlines < MaxProviderLines
    /\ nlines' = nlines + 1
    /\ prog' = Append(prog, ProviderProgress(call[w].op))
    /\ trace' = Append(trace, SentProgress(cur[w], call[w].backend, ProviderProgress(call[w].op)))
    /\ UNCHANGED <<jobs, submitted, pc, cur, call, any_ok, items, res, lock, evt>>

\* refresh returns: its result is the job's result.
ReturnRefresh(w) ==
    /\ pc[w] = "call"
    /\ call[w].op = "refresh"
    /\ \E r \in UnitOutcomes :
          /\ Leave(w, r)
          /\ trace' = Append(trace, Returned(cur[w], call[w], r))
    /\ UNCHANGED <<jobs, submitted, cur, nlines, any_ok, items, lock, prog, evt>>

\* A Search arm that gives up when repo.search fails: the error is the job's
\* result and aur.search is not called.
ReturnSearchRepoStops(w) ==
    /\ pc[w] = "call"
    /\ call[w] = Call("repo", "search")
    /\ \E r \in ListOutcomes("repo") :
          LET tr == Append(trace, Returned(cur[w], call[w], r))
          IN IF r.ok
             THEN /\ items' = [items EXCEPT ![w] = @ \o r.val]
                  /\ any_ok' = [any_ok EXCEPT ![w] = TRUE]
                  /\ Enter(w, Call("aur", "search"), tr)
                  /\ UNCHANGED res
             ELSE /\ Leave(w, r)
                  /\ trace' = tr
                  /\ UNCHANGED <<items, any_ok, nlines>>
    /\ UNCHANGED <<jobs, submitted, cur, lock, prog, evt>>

\* repo.search returns: its items are appended, or a warning line is sent;
\* then aur.search is called.
ReturnSearchRepo(w) ==
    /\ pc[w] = "call"
    /\ call[w] = Call("repo", "search")
    /\ \E r \in ListOutcomes("repo") :
          LET warn == WarningProgress(cur[w], "Searching", "repo search", r.err)
              tr == Append(trace, Returned(cur[w], call[w], r))
          IN IF r.ok
             THEN /\ items' = [items EXCEPT ![w] = @ \o r.val]
                  /\ any_ok' = [any_ok EXCEPT ![w] = TRUE]
                  /\ Enter(w, Call("aur", "search"), tr)
                  /\ UNCHANGED prog
             ELSE /\ prog' = Append(prog, warn)
                  /\ Enter(w, Call("aur", "search"),
                           Append(tr, SentProgress(cur[w], "executor", warn)))
                  /\ UNCHANGED <<items, any_ok>>
    /\ UNCHANGED <<jobs, submitted, cur, res, lock, evt>>

\* aur.search returns: items or a warning line as above; then the job fails
\* when no provider succeeded, and otherwise publishes the sorted items.
ReturnSearchAur(w) ==
    /\ pc[w] = "call"
    /\ call[w] = Call("aur", "search")
    /\ \E r \in ListOutcomes("aur") :
          LET warn == WarningProgress(cur[w], "Searching", "AUR search", r.err)
              tr1 == Append(trace, Returned(cur[w], call[w], r))
              tr2 == IF r.ok THEN tr1 ELSE Append(tr1, SentProgress(cur[w], "executor", warn))
              all == IF r.ok THEN items[w] \o r.val ELSE items[w]
              ok == IF r.ok THEN TRUE ELSE any_ok[w]
              e == EventSearchResults(SearchQuery(cur[w].payload), SortByName(all))
          IN /\ prog' = IF r.ok THEN prog ELSE Append(prog, warn)
             /\ items' = [items EXCEPT ![w] = all]
             /\ any_ok' = [any_ok EXCEPT ![w] = ok]
             /\ IF SearchFailed(ok)
                THEN /\ Leave(w, Err(AllBackendsFailed))
                     /\ trace' = tr2
                     /\ UNCHANGED evt
                ELSE /\ Leave(w, Ok(<<>>))
                     /\ evt' = Append(evt, e)
                     /\ trace' = Append(tr2, SentEvent(cur[w], e))
    /\ UNCHANGED <<jobs, submitted, cur, nlines, lock>>

\* A details arm that swallows the provider's error: `if let Ok(d) = ...`.
ReturnDetailsSwallow(w) ==
    /\ pc[w] = "call"
    /\ call[w].op = "details"
    /\ \E r \in DetailsOutcomes(cur[w].payload.pkg) :
          LET tr == Append(trace, Returned(cur[w], call[w], r))
              e == EventDetails(r.val[1])
          IN IF r.ok
             THEN /\ Leave(w, Ok(<<>>))
                  /\ evt' = Append(evt, e)
                  /\ trace' = Append(tr, SentEvent(cur[w], e))
             ELSE /\ Leave(w, Ok(<<>>))
                  /\ trace' = tr
                  /\ UNCHANGED evt
    /\ UNCHANGED <<jobs, submitted, cur, nlines, any_ok, items, lock, prog>>

\* details returns: Event::Details on Ok, the error otherwise (`?`).
ReturnDetails(w) ==
    /\ pc[w] = "call"
    /\ call[w].op = "details"
    /\ \E r \in DetailsOutcomes(cur[w].payload.pkg) :
          LET tr == Append(trace, Returned(cur[w], call[w], r))
              e == EventDetails(r.val[1])
          IN IF r.ok
             THEN /\ Leave(w, Ok(<<>>))
                  /\ evt' = Append(evt, e)
                  /\ trace' = Append(tr, SentEvent(cur[w], e))
             ELSE /\ Leave(w, r)
                  /\ trace' = tr
                  /\ UNCHANGED evt
    /\ UNCHANGED <<jobs, submitted, cur, nlines, any_ok, items, lock, prog>>

\* A guard that is never dropped.
KeepGuard(l) == l

\* What becomes of TXN_MUTEX when the arm of a mutating job ends: `_g` goes
\* out of scope and the guard is dropped.
DropGuard(l) == 0

\* install / remove / upgrade / upgrade_all returns: its result is the job's
\* result, and the guard is dropped.
ReturnMutating(w) ==
    /\ pc[w] = "call"
    /\ call[w].op \in MutatingOps
    /\ \E r \in UnitOutcomes :
          /\ Leave(w, r)
          /\ trace' = Append(trace, Returned(cur[w], call[w], r))
    /\ lock' = DropGuard(lock)
    /\ UNCHANGED <<jobs, submitted, cur, nlines, any_ok, items, prog, evt>>

\* repo.upgrades returns: items or a warning line; then aur.upgrades.
ReturnUpgradesRepo(w) ==
    /\ pc[w] = "call"
    /\ call[w] = Call("repo", "upgrades")
    /\ \E r \in ListOutcomes("repo") :
          LET warn == WarningProgress(cur[w], "Verifying", "repo upgrades", r.err)
              tr == Append(trace, Returned(cur[w], call[w], r))
          IN IF r.ok
             THEN /\ items' = [items EXCEPT ![w] = @ \o r.val]
                  /\ Enter(w, Call("aur", "upgrades"), tr)
                  /\ UNCHANGED prog
             ELSE /\ prog' = Append(prog, warn)
                  /\ Enter(w, Call("aur", "upgrades"),
                           Append(tr, SentProgress(cur[w], "executor", warn)))
                  /\ UNCHANGED items
    /\ UNCHANGED <<jobs, submitted, cur, any_ok, res, lock, evt>>

\* An Upgrades arm that propagates the error of aur.upgrades with `?`.
UpgradesResultTry(r) == IF r.ok THEN Ok(<<>>) ELSE Err(r.err)

\* The value of the Upgrades arm after aur.upgrades returned r: the Err arm
\* of the match only sends the warning line, and the arm ends with Ok(())
\* ("don't fail the whole job").
UpgradesResult(r) == Ok(<<>>)

\* aur.upgrades returns: items or a warning line; the sorted items are
\* published as Event::Upgrades and the job is Ok.
ReturnUpgradesAur(w) ==
    /\ pc[w] = "call"
    /\ call[w] = Call("aur", "upgrades")
    /\ \E r \in ListOutcomes("aur") :
          LET warn == WarningProgress(cur[w], "Verifying", "AUR upgrades", r.err)
              tr1 == Append(trace, Returned(cur[w], call[w], r))
              tr2 == IF r.ok THEN tr1 ELSE Append(tr1, SentProgress(cur[w], "executor", warn))
              all == IF r.ok THEN items[w] \o r.val ELSE items[w]
              e == EventUpgrades(SortByName(all))
              out == UpgradesResult(r)
          IN /\ prog' = IF r.ok THEN prog ELSE Append(prog, warn)
             /\ items' = [items EXCEPT ![w] = all]
             /\ IF ~out.ok
                THEN /\ Leave(w, out)
                     /\ trace' = tr2
                     /\ UNCHANGED evt
                ELSE /\ Leave(w, out)
                     /\ evt' = Append(evt, e)
                     /\ trace' = Append(tr2, SentEvent(cur[w], e))
    /\ UNCHANGED <<jobs, submitted, cur, nlines, any_ok, lock>>

\* SystemChanged for a mutating job whatever run_job() returned.
FinishChangedOnError(w) ==
    /\ pc[w] = "post"
    /\ LET job == cur[w]
           changed == PublishesSystemChanged(job.kind)
           term == TerminalProgress(job, res[w])
       IN /\ evt' = IF changed THEN Append(evt, EventSystemChanged) ELSE evt
          /\ prog' = Append(prog, term)
          /\ trace' = (IF changed THEN Append(trace, SentEvent(job, EventSystemChanged))
                       ELSE trace) \o <<SentProgress(job, "executor", term)>>
    /\ pc' = [pc EXCEPT ![w] = "recv"]
    /\ UNCHANGED <<jobs, submitted, cur, call, nlines, any_ok, items, res, lock>>

\* After run_job(): SystemChanged when a mutating job was Ok, then the
\* terminal Progress; the loop goes back to recv().
Finish(w) ==
    /\ pc[w] = "post"
    /\ LET job == cur[w]
           changed == res[w].ok /\ PublishesSystemChanged(job.kind)
           term == TerminalProgress(job, res[w])
       IN /\ evt' = IF changed THEN Append(evt, EventSystemChanged) ELSE evt
          /\ prog' = Append(prog, term)
          /\ trace' = (IF changed THEN Append(trace, SentEvent(job, EventSystemChanged))
                       ELSE trace) \o <<SentProgress(job, "executor", term)>>
    /\ pc' = [pc EXCEPT ![w] = "recv"]
    /\ UNCHANGED <<jobs, submitted, cur, call, nlines, any_ok, items, res, lock>>

Next ==
    \/ Submit /\ UNCHANGED <<providerVars, storeVars, watchVars>>
    \/ \E w \in Workers : Dequeue(w) /\ UNCHANGED <<providerVars, storeVars, watchVars>>
    \/ \E w \in Workers : StartRefresh(w) /\ UNCHANGED <<providerVars, storeVars, watchVars>>
    \/ \E w \in Workers : SearchShort(w) /\ UNCHANGED <<providerVars, storeVars, watchVars>>
    \/ \E w \in Workers : StartSearch(w) /\ UNCHANGED <<providerVars, storeVars, watchVars>>
    \/ \E w \in Workers : StartDetails(w) /\ UNCHANGED <<providerVars, storeVars, watchVars>>
    \/ \E w \in Workers : StartMutating(w) /\ UNCHANGED <<providerVars, storeVars, watchVars>>
    \/ \E w \in Workers : StartUpgradeAll(w) /\ UNCHANGED <<providerVars, storeVars, watchVars>>
    \/ \E w \in Workers : StartUpgrades(w) /\ UNCHANGED <<providerVars, storeVars, watchVars>>
    \/ \E w \in Workers : ProviderLine(w) /\ UNCHANGED <<providerVars, storeVars, watchVars>>
    \/ \E w \in Workers : ReturnRefresh(w) /\ UNCHANGED <<providerVars, storeVars, watchVars>>
    \/ \E w \in Workers : ReturnSearchRepo(w) /\ UNCHANGED <<providerVars, storeVars, watchVars>>
    \/ \E w \in Workers : ReturnSearchAur(w) /\ UNCHANGED <<providerVars, storeVars, watchVars>>
    \/ \E w \in Workers : ReturnDetails(w) /\ UNCHANGED <<providerVars, storeVars, watchVars>>
    \/ \E w \in Workers : ReturnMutating(w) /\ UNCHANGED <<providerVars, storeVars, watchVars>>
    \/ \E w \in Workers : ReturnUpgradesRepo(w) /\ UNCHANGED <<providerVars, storeVars, watchVars>>
    \/ \E w \in Workers : ReturnUpgradesAur(w) /\ UNCHANGED <<providerVars, storeVars, watchVars>>
    \/ \E w \in Workers : Finish(w) /\ UNCHANGED <<providerVars, storeVars, watchVars>>

\* The program as main() builds it: one Executor thread.
Spec == Init /\ [][Next]_vars

\* The steps the Executor's thread takes by itself: the receive of a waiting
\* job, the entry into a backend call, and what follows run_job().  The
\* return of a backend call is the provider's step.
WorkerStep ==
    \E w \in Workers :
        /\ \/ Dequeue(w)
           \/ StartRefresh(w)
           \/ SearchShort(w)
           \/ StartSearch(w)
           \/ StartDetails(w)
           \/ StartMutating(w)
           \/ StartUpgradeAll(w)
           \/ StartUpgrades(w)
           \/ Finish(w)
        /\ UNCHANGED <<providerVars, storeVars, watchVars>>

\* The Executor's thread is spawned once and is never parked: it runs
\* whenever it has a step to take.
SpecFair == Init /\ [][Next]_vars /\ WF_vars(WorkerStep)

\* Two Executor threads in one process, given mutating jobs only: the steps
\* of the other arms are never enabled.
NextTwoWorkers ==
    \/ SubmitMutating /\ UNCHANGED <<providerVars, storeVars, watchVars>>
    \/ \E w \in Workers : Dequeue(w) /\ UNCHANGED <<providerVars, storeVars, watchVars>>
    \/ \E w \in Workers : StartMutating(w) /\ UNCHANGED <<providerVars, storeVars, watchVars>>
    \/ \E w \in Workers : StartUpgradeAll(w) /\ UNCHANGED <<providerVars, storeVars, watchVars>>
    \/ \E w \in Workers : ProviderLine(w) /\ UNCHANGED <<providerVars, storeVars, watchVars>>
    \/ \E w \in Workers : ReturnMutating(w) /\ UNCHANGED <<providerVars, storeVars, watchVars>>
    \/ \E w \in Workers : Finish(w) /\ UNCHANGED <<providerVars, storeVars, watchVars>>

SpecTwoWorkers == InitTwoWorkers /\ [][NextTwoWorkers]_vars

--------------------------------------------------------------------------
(* The providers: PacmanCli::run_stream, AurBackend, and cancellation *)

\* The jobs whose provider call runs an external command.
StreamInputs ==
    ({"Install", "Remove"} \X {PayloadPackage(p) : p \in Packages})
    \cup ({"Upgrade"} \X {PayloadPackage(PackageId(<<"a">>, "Repo"))})
    \cup ({"Refresh"} \X {PayloadNone, PayloadPackage(PackageId(<<"a">>, "Aur"))})
    \cup ({"UpgradeAll"} \X {PayloadNone})

SubmitStream ==
    /\ Len(submitted) < MaxStreamJobs
    /\ SubmitFrom(StreamInputs)

\* The provider call of job t is blocked on its running subprocess: in the
\* poll loop of run_stream, or in Command::status().
Waiting(t) ==
    /\ child[t].running
    /\ frame.at \in {"try_wait", "check", "status"}
    /\ \E w \in Workers : pc[w] = "call" /\ cur[w].cancel = t

\* A holder of a clone of job t's token calls cancel().
Cancel(t) ==
    /\ t \in 1..Len(submitted)
    /\ cancelled' = cancel(cancelled, t)
    /\ interrupted' = IF Waiting(t) THEN interrupted \cup {t} ELSE interrupted
    /\ UNCHANGED <<execVars, frame, child, killed, helpers>>

\* The worker is inside operation `ops` of provider b, at `at`.
InProvider(w, b, ops, at) ==
    /\ pc[w] = "call"
    /\ call[w].backend = b
    /\ call[w].op \in ops
    /\ frame.at = at

\* run_stream: cmd.spawn() succeeds; the two reader threads are started.
Spawn(w) ==
    /\ InProvider(w, "repo", StreamOps, "none")
    /\ frame' = [at |-> "try_wait", r |-> Ok(<<>>)]
    /\ child' = [child EXCEPT ![cur[w].cancel] = Running]
    /\ helpers' = [helpers EXCEPT ![cur[w].cancel] = <<"running", "running">>]
    /\ UNCHANGED <<execVars, cancelled, killed, interrupted>>

\* run_stream: cmd.spawn() fails, and `?` returns before any thread exists.
SpawnFails(w) ==
    /\ InProvider(w, "repo", StreamOps, "none")
    /\ frame' = [at |-> "ret", r |-> Err(Error("Internal", "spawn: error"))]
    /\ UNCHANGED <<execVars, cancelled, child, killed, interrupted, helpers>>

\* The subprocess of job t ends, by itself or by the signal.
ChildExit(t) ==
    /\ child[t].running
    /\ \E code \in ExitCodes : child' = [child EXCEPT ![t] = Exited(code)]
    /\ UNCHANGED <<execVars, cancelled, frame, killed, interrupted, helpers>>

\* Thread t1 (k = 1) or t2 (k = 2) of job t's run_stream reads a line and
\* sends it on its clone of the sink.
HelperLine(t, k) ==
    /\ helpers[t][k] = "running"
    /\ nlines < MaxProviderLines
    /\ nlines' = nlines + 1
    /\ LET p == StreamProgress(OpOf(submitted[t].kind), k) IN
          /\ prog' = Append(prog, p)
          /\ trace' = Append(trace, SentProgress(submitted[t], "repo", p))
    /\ UNCHANGED <<jobs, submitted, pc, cur, call, any_ok, items, res, lock, evt>>
    /\ UNCHANGED <<providerVars, storeVars, watchVars>>

\* The thread reaches the end of its pipe, which the subprocess closed by
\* ending, and finishes.
HelperEof(t, k) ==
    /\ helpers[t][k] = "running"
    /\ ~child[t].running
    /\ helpers' = [helpers EXCEPT ![t][k] = "done"]
    /\ UNCHANGED <<execVars, cancelled, frame, child, killed, interrupted>>

\* run_stream, top of the loop: child.try_wait().  Ok(Some(status)) when the
\* subprocess has ended, Ok(None) while it runs, or Err(e), which returns at
\* once.
TryWait(w) ==
    /\ InProvider(w, "repo", StreamOps, "try_wait")
    /\ \/ /\ ~child[cur[w].cancel].running
          /\ frame' = [at |-> "join1", r |-> Ok(<<child[cur[w].cancel].code>>)]
       \/ /\ child[cur[w].cancel].running
          /\ frame' = [at |-> "check", r |-> Ok(<<>>)]
       \/ frame' = [at |-> "ret", r |-> Err(Error("Internal", "wait: error"))]
    /\ UNCHANGED <<execVars, cancelled, child, killed, interrupted, helpers>>

\* A termination request that is never sent.
SigtermNotSent(k, t) == k

\* nix::sys::signal::kill(pid, SIGTERM)
Sigterm(k, t) == k \cup {t}

\* run_stream, the Ok(None) arm: with the token cancelled, SIGTERM and on to
\* child.wait(); otherwise sleep 16 ms and poll again.
Check(w) ==
    /\ InProvider(w, "repo", StreamOps, "check")
    /\ IF SeesCancel(cancelled, cur[w].cancel)
       THEN /\ killed' = Sigterm(killed, cur[w].cancel)
            /\ frame' = [at |-> "wait", r |-> Err(Error("Cancelled", ""))]
       ELSE /\ frame' = [at |-> "try_wait", r |-> Ok(<<>>)]
            /\ UNCHANGED killed
    /\ UNCHANGED <<execVars, cancelled, child, interrupted, helpers>>

\* run_stream after the signal: child.wait() returns when the subprocess has
\* ended.
Wait(w) ==
    /\ InProvider(w, "repo", StreamOps, "wait")
    /\ ~child[cur[w].cancel].running
    /\ frame' = [frame EXCEPT !.at = "join1"]
    /\ UNCHANGED <<execVars, cancelled, child, killed, interrupted, helpers>>

\* t1.join() (k = 1), then t2.join() (k = 2): each returns when its thread
\* has finished.
Join(w, k) ==
    /\ InProvider(w, "repo", StreamOps, IF k = 1 THEN "join1" ELSE "join2")
    /\ helpers[cur[w].cancel][k] = "done"
    /\ helpers' = [helpers EXCEPT ![cur[w].cancel][k] = "joined"]
    /\ frame' = [frame EXCEPT !.at = IF k = 1 THEN "join2" ELSE "ret"]
    /\ UNCHANGED <<execVars, cancelled, child, killed, interrupted>>

\* AurBackend::refresh: Ok(()) at once.
AurRefresh(w) ==
    /\ InProvider(w, "aur", {"refresh"}, "none")
    /\ frame' = [at |-> "ret", r |-> Ok(<<>>)]
    /\ UNCHANGED <<execVars, cancelled, child, killed, interrupted, helpers>>

\* AurBackend::install / remove start their external command (the build and
\* installation of install are taken as one command) and block in
\* Command::status(); install first sends its "building" line.
AurCommand(w) ==
    /\ InProvider(w, "aur", AurCommandOps, "none")
    /\ frame' = [at |-> "status", r |-> Ok(<<>>)]
    /\ child' = [child EXCEPT ![cur[w].cancel] = Running]
    /\ LET p == Progress(0, "Building", None, "building", FALSE) IN
          IF call[w].op = "install"
          THEN /\ prog' = Append(prog, p)
               /\ trace' = Append(trace, SentProgress(cur[w], "aur", p))
          ELSE UNCHANGED <<prog, trace>>
    /\ UNCHANGED <<jobs, submitted, pc, cur, call, nlines, any_ok, items, res, lock, evt>>
    /\ UNCHANGED <<cancelled, killed, interrupted, helpers>>

\* Command::status() returns when the command has ended; `_cancel` is never
\* read.
AurStatus(w) ==
    /\ InProvider(w, "aur", AurCommandOps, "status")
    /\ ~child[cur[w].cancel].running
    /\ frame' = [at |-> "ret", r |-> AurResult(call[w].op, child[cur[w].cancel].code)]
    /\ UNCHANGED <<execVars, cancelled, child, killed, interrupted, helpers>>

\* The provider call returns to the Executor: its result is the job's
\* result, and the guard of a mutating job is dropped.
ReturnProvider(w) ==
    /\ pc[w] = "call"
    /\ frame.at = "ret"
    /\ LET r == IF call[w].backend = "repo" THEN RepoResult(call[w].op, frame.r) ELSE frame.r IN
          /\ Leave(w, r)
          /\ trace' = Append(trace, Returned(cur[w], call[w], r))
    /\ lock' = IF call[w].op \in MutatingOps THEN DropGuard(lock) ELSE lock
    /\ frame' = NoFrame
    /\ UNCHANGED <<jobs, submitted, cur, nlines, any_ok, items, prog, evt>>
    /\ UNCHANGED <<cancelled, child, killed, interrupted, helpers>>

NextStream ==
    \/ SubmitStream /\ UNCHANGED <<providerVars, storeVars, watchVars>>
    \/ \E t \in 1..MaxJobs : Cancel(t) /\ UNCHANGED <<storeVars, watchVars>>
    \/ \E w \in Workers : Dequeue(w) /\ UNCHANGED <<providerVars, storeVars, watchVars>>
    \/ \E w \in Workers : StartRefresh(w) /\ UNCHANGED <<providerVars, storeVars, watchVars>>
    \/ \E w \in Workers : StartMutating(w) /\ UNCHANGED <<providerVars, storeVars, watchVars>>
    \/ \E w \in Workers : StartUpgradeAll(w) /\ UNCHANGED <<providerVars, storeVars, watchVars>>
    \/ \E w \in Workers : Spawn(w) /\ UNCHANGED <<storeVars, watchVars>>
    \/ \E w \in Workers : SpawnFails(w) /\ UNCHANGED <<storeVars, watchVars>>
    \/ \E t \in 1..MaxJobs : ChildExit(t) /\ UNCHANGED <<storeVars, watchVars>>
    \/ \E t \in 1..MaxJobs, k \in {1, 2} : HelperLine(t, k) /\ UNCHANGED <<storeVars, watchVars>>
    \/ \E t \in 1..MaxJobs, k \in {1, 2} : HelperEof(t, k) /\ UNCHANGED <<storeVars, watchVars>>
    \/ \E w \in Workers : TryWait(w) /\ UNCHANGED <<storeVars, watchVars>>
    \/ \E w \in Workers : Check(w) /\ UNCHANGED <<storeVars, watchVars>>
    \/ \E w \in Workers : Wait(w) /\ UNCHANGED <<storeVars, watchVars>>
    \/ \E w \in Workers, k \in {1, 2} : Join(w, k) /\ UNCHANGED <<storeVars, watchVars>>
    \/ \E w \in Workers : AurRefresh(w) /\ UNCHANGED <<storeVars, watchVars>>
    \/ \E w \in Workers : AurCommand(w) /\ UNCHANGED <<storeVars, watchVars>>
    \/ \E w \in Workers : AurStatus(w) /\ UNCHANGED <<storeVars, watchVars>>
    \/ \E w \in Workers : ReturnProvider(w) /\ UNCHANGED <<storeVars, watchVars>>
    \/ \E w \in Workers : Finish(w) /\ UNCHANGED <<providerVars, storeVars, watchVars>>

\* One Executor thread with PacmanCli and AurBackend as its providers, and
\* callers that may cancel the jobs they submitted.
SpecStream == Init /\ [][NextStream]_vars

--------------------------------------------------------------------------
(* The Store: Store::dispatch, one action per arm *)

\* The queries the user types.
StoreQueries == { <<>>, <<" ">>, <<" ", "a">>, <<"A">> }

\* A name and two longer names that begin with it, as firefox/Repo,
\* firefox-esr/Repo, firefox-nightly/Aur.
ExampleItems ==
    <<PackageSummary(<<"a">>, "Repo"), PackageSummary(<<"a", "-", "b">>, "Repo"),
      PackageSummary(<<"a", "-", "c">>, "Aur")>>

\* Two items of one name, one with no popularity and one with popularity 0,
\* and between them an item whose description holds what its name does not.
TiedItems ==
    <<PackageSummary(<<"a">>, "Aur"),
      [PackageSummary(<<"b">>, "Repo") EXCEPT !.description = <<"A">>, !.popular = <<5>>],
      [PackageSummary(<<"a">>, "Repo") EXCEPT !.installed = TRUE, !.popular = <<0>>]>>

\* The item lists the events bring.
StoreItems ==
    { <<>>,
      <<PackageSummary(<<"b">>, "Aur"), PackageSummary(<<"a">>, "Repo")>>,
      <<[PackageSummary(<<"a">>, "Aur") EXCEPT !.installed = TRUE, !.popular = <<5>>]>>,
      ExampleItems,
      TiedItems }

\* The log lines of the Progress messages: none, an ASCII line, a line of
\* one two-byte character.
LogLines == { <<>>, <<"a">>, <<"E9">> }

\* The Progress messages given to the Store.
StoreProgress ==
    { Progress(0, st, None, l, FALSE) : l \in LogLines, st \in {"Installing", "Failed"} }

\* What no arm of dispatch touches: the Executor's side, the providers and
\* the watcher.
StoreFrame ==
    UNCHANGED <<pc, cur, call, nlines, any_ok, items, res, lock, prog, evt, trace,
                providerVars, watchVars>>

\* An arm that sends nothing: `self.state.set(s)` with the new AppState.
Reduce(st) ==
    /\ ~panicked
    /\ state' = st
    /\ UNCHANGED <<jobs, submitted, next_id, holders, appended, panicked>>
    /\ StoreFrame

\* An arm that sends one job, with a jid that reads next_id without adding to it.
ReduceAndSendStaleId(st, kind, payload) ==
    /\ ~panicked
    /\ Len(submitted) < MaxStoreJobs
    /\ LET job == Job(next_id, kind, payload, Len(submitted) + 1) IN
          /\ jobs' = Append(jobs, job)
          /\ submitted' = Append(submitted, job)
          /\ holders' = holders \cup {<<job.cancel, "job">>}
    /\ state' = st
    /\ UNCHANGED <<next_id, appended, panicked>>
    /\ StoreFrame

\* An arm that sends one job: `let id = self.jid()`, then
\* tx_jobs.send(Job { id, kind, payload, created_at, cancel: CancelToken::new() }).
\* The token is created in the struct literal and moved into the channel with
\* the Job: the Job is its only holder.
ReduceAndSend(st, kind, payload) ==
    /\ ~panicked
    /\ Len(submitted) < MaxStoreJobs
    /\ LET job == Job(next_id, kind, payload, Len(submitted) + 1) IN
          /\ jobs' = Append(jobs, job)
          /\ submitted' = Append(submitted, job)
          /\ holders' = holders \cup {<<job.cancel, "job">>}
    /\ next_id' = next_id + 1
    /\ state' = st
    /\ UNCHANGED <<appended, panicked>>
    /\ StoreFrame

\* Action::SetQuery(q)
DispatchSetQuery(q) == Reduce([state EXCEPT !.query = q])

\* Action::Search: a Search job with the trimmed query; an empty trimmed
\* query also clears results and selection.
DispatchSearch ==
    LET q == Trim(state.query)
        st == [state EXCEPT !.in_upgrades_view = FALSE]
    IN ReduceAndSend(IF q = <<>> THEN [st EXCEPT !.results = <<>>, !.selected = NoPackage]
                     ELSE st,
                     "Search", PayloadQuery(q))

\* Action::Upgrades
DispatchUpgrades ==
    ReduceAndSend([state EXCEPT !.in_upgrades_view = TRUE], "Upgrades", PayloadNone)

\* Action::UpgradeAll sending the job of Action::Upgrades.
DispatchUpgradeAllAsUpgrades == ReduceAndSend(state, "Upgrades", PayloadNone)

\* Action::UpgradeAll
DispatchUpgradeAll == ReduceAndSend(state, "UpgradeAll", PayloadNone)

\* Action::Upgrade(id), Action::Install(id), Action::Remove(id)
DispatchPackage(kind, id) == ReduceAndSend(state, kind, PayloadPackage(id))

\* The error after a Progress of any stage takes the place of the old one.
ErrorOfLastProgress(error, stage) ==
    IF stage = "Failed" THEN "operation failed" ELSE None

\* `if matches!(p.stage, Stage::Failed) && s.error.is_none()
\*      { s.error = Some("operation failed".into()) }`: the error afterwards.
ErrorAfterProgress(error, stage) ==
    IF stage = "Failed" /\ error = None THEN "operation failed" ELSE error

\* Action::Progress(p): the log line and a newline are appended and the log
\* is cut back to MAX_LOG bytes from its front; String::drain panics when the
\* cut is not on a character boundary, and then dispatch never reaches
\* `self.state.set(s)`.  A Failed stage sets the error if there is none.
DispatchProgress(p) ==
    /\ ~panicked
    /\ LET log == IF p.log = <<>> THEN state.progress_log
                  ELSE Pushed(state.progress_log, p.log)
       IN /\ (p.log # <<>>) => Len(appended) < MaxLogLines
          /\ appended' = IF p.log = <<>> THEN appended ELSE Append(appended, p.log \o <<"LF">>)
          /\ IF IsCharBoundary(log, Cut(log))
             THEN /\ state' = [state EXCEPT
                                  !.progress_log = Drained(log, Cut(log)),
                                  !.error = ErrorAfterProgress(@, p.stage)]
                  /\ UNCHANGED panicked
             ELSE /\ panicked' = TRUE
                  /\ UNCHANGED state
    /\ UNCHANGED <<jobs, submitted, next_id, holders>>
    /\ StoreFrame

\* Action::Event(Event::SearchResults { items, .. })
DispatchSearchResults(its) == Reduce(AfterSearchResults(state, its))

\* Action::Event(Event::Upgrades { items })
DispatchUpgradesEvent(its) == Reduce(AfterUpgrades(state, its))

\* Action::Event(Event::Details { .. }): not shown.
DispatchDetails == Reduce(state)

\* Event::SystemChanged without the test of in_upgrades_view.
DispatchSystemChangedSearches ==
    IF Trim(state.query) # <<>> THEN ReduceAndSend(state, "Search", PayloadQuery(state.query))
    ELSE Reduce(state)

\* Action::Event(Event::SystemChanged): an Upgrades job in the upgrades
\* view, else a Search job with the query as typed when its trim is not
\* empty, else nothing.
DispatchSystemChanged ==
    IF state.in_upgrades_view THEN ReduceAndSend(state, "Upgrades", PayloadNone)
    ELSE IF Trim(state.query) # <<>> THEN ReduceAndSend(state, "Search", PayloadQuery(state.query))
    ELSE Reduce(state)

\* Action::ClearError
DispatchClearError == Reduce([state EXCEPT !.error = None])

\* Action::Select(id)
DispatchSelect(id) == Reduce([state EXCEPT !.selected = id])

\* Action::ClearSelection
DispatchClearSelection == Reduce([state EXCEPT !.selected = NoPackage])

\* The flags the four toggle intents flip.
Flags == {"filter_repo", "filter_aur", "filter_installed", "log_expanded"}

\* A toggle that sets its flag.
ToggledOn(st, flag) == [st EXCEPT ![flag] = TRUE]

\* `s.filter_repo = !s.filter_repo`, and the same for the other three flags.
Toggled(st, flag) == [st EXCEPT ![flag] = ~@]

\* Action::ToggleFilterRepo, ToggleFilterAur, ToggleFilterInstalled, ToggleLog
DispatchToggle(flag) == Reduce(Toggled(state, flag))

\* Action::SetSort(m)
\* SetSort that sorts the results held under the new mode.
DispatchSetSortResorts(m) ==
    Reduce([state EXCEPT !.sort = m, !.results = SortBy(m, state.results)])

DispatchSetSort(m) == Reduce([state EXCEPT !.sort = m])

\* The Store given intents that select, search and filter, and the two
\* results-replacing events.
NextSelection ==
    \/ \E q \in StoreQueries : DispatchSetQuery(q) /\ UNCHANGED dispatched
    \/ DispatchSearch /\ UNCHANGED dispatched
    \/ \E id \in Packages : DispatchSelect(id) /\ UNCHANGED dispatched
    \/ DispatchClearSelection /\ UNCHANGED dispatched
    \/ \E f \in {"filter_repo", "filter_aur", "filter_installed"} : DispatchToggle(f) /\ UNCHANGED dispatched
    \/ \E m \in SortModes : DispatchSetSort(m) /\ UNCHANGED dispatched
    \/ \E its \in StoreItems : DispatchSearchResults(its) /\ UNCHANGED dispatched
    \/ \E its \in StoreItems : DispatchUpgradesEvent(its) /\ UNCHANGED dispatched

SpecSelection == Init /\ [][NextSelection]_vars

\* The Store given Progress messages, ClearError and ToggleLog.
NextLog ==
    \/ \E p \in StoreProgress : DispatchProgress(p) /\ UNCHANGED dispatched
    \/ DispatchClearError /\ UNCHANGED dispatched
    \/ DispatchToggle("log_expanded") /\ UNCHANGED dispatched

SpecLog == Init /\ [][NextLog]_vars

\* The Store given the intents and the event that send jobs.
NextIssue ==
    \/ \E q \in StoreQueries : DispatchSetQuery(q) /\ UNCHANGED dispatched
    \/ DispatchSearch /\ UNCHANGED dispatched
    \/ DispatchUpgrades /\ UNCHANGED dispatched
    \/ DispatchUpgradeAll /\ UNCHANGED dispatched
    \/ \E k \in {"Upgrade", "Install", "Remove"}, id \in Packages : DispatchPackage(k, id) /\ UNCHANGED dispatched
    \/ DispatchDetails /\ UNCHANGED dispatched
    \/ DispatchSystemChanged /\ UNCHANGED dispatched

SpecIssue == Init /\ [][NextIssue]_vars

\* One more action is given to the Store.
Counted == dispatched < MaxDispatches /\ dispatched' = dispatched + 1

\* The Store given any action: every arm of dispatch, a bounded number of
\* times.
NextStore ==
    \/ \E q \in StoreQueries : Counted /\ DispatchSetQuery(q)
    \/ Counted /\ DispatchSearch
    \/ Counted /\ DispatchUpgrades
    \/ Counted /\ DispatchUpgradeAll
    \/ \E k \in {"Upgrade", "Install", "Remove"}, id \in Packages :
          Counted /\ DispatchPackage(k, id)
    \/ \E p \in StoreProgress : Counted /\ DispatchProgress(p)
    \/ \E its \in StoreItems : Counted /\ DispatchSearchResults(its)
    \/ \E its \in StoreItems : Counted /\ DispatchUpgradesEvent(its)
    \/ Counted /\ DispatchDetails
    \/ Counted /\ DispatchSystemChanged
    \/ Counted /\ DispatchClearError
    \/ \E id \in Packages : Counted /\ DispatchSelect(id)
    \/ Counted /\ DispatchClearSelection
    \/ \E f \in Flags : Counted /\ DispatchToggle(f)
    \/ \E m \in SortModes : Counted /\ DispatchSetSort(m)

SpecStore == Init /\ [][NextStore]_vars

--------------------------------------------------------------------------
(* The change watcher: the notify callback, and time *)

\* The paths the notifications name: the root, a package directory under it,
\* the desc file and another file in that directory, a directory nested in
\* it, and a desc file outside the root.
WatchPaths ==
    { LOCAL_DB,
      LOCAL_DB \o <<"pkg">>,
      LOCAL_DB \o <<"pkg", "desc">>,
      LOCAL_DB \o <<"pkg", "files">>,
      LOCAL_DB \o <<"pkg", "sub">>,
      <<"var", "lib", "pacman", "sync", "desc">> }

\* What notify hands to the callback: an error, or an event of some kind
\* with one path, or with a path outside the root before one inside it.
Notifications ==
    {[ok |-> FALSE, kind |-> "Access", paths |-> <<>>]}
    \cup [ok : {TRUE}, kind : EventKinds,
          paths : {<<p>> : p \in WatchPaths}
                  \cup {<<<<"var", "lib", "pacman", "sync", "desc">>, LOCAL_DB \o <<"pkg">>>>}]

\* Time passes.
Advance ==
    /\ now < MaxTime
    /\ now' = now + 1
    /\ UNCHANGED <<last, watch, seen>>

\* The callback with `last = now` moved out of the `if`: every notification
\* that reaches the debounce restarts the cooldown.
NotifyRestarts(n) ==
    /\ IF ~n.ok \/ ~is_meaningful_kind(n.kind) \/ ~relevant(n)
       THEN UNCHANGED <<last, watch, seen>>
       ELSE /\ Len(seen) < MaxEvents
            /\ last' = now
            /\ IF DebouncePassed(now, last)
               THEN /\ watch' = watch + 1
                    /\ seen' = Append(seen, [at |-> now, sent |-> TRUE])
               ELSE /\ seen' = Append(seen, [at |-> now, sent |-> FALSE])
                    /\ UNCHANGED watch
    /\ UNCHANGED now

\* The callback of notify::recommended_watcher, run for one notification:
\* errors, other kinds and other paths return early; what is left reads the
\* clock and sends a signal if `last` is a cooldown or more ago.
Notify(n) ==
    /\ IF ~n.ok \/ ~is_meaningful_kind(n.kind) \/ ~relevant(n)
       THEN UNCHANGED <<last, watch, seen>>
       ELSE /\ Len(seen) < MaxEvents
            /\ IF DebouncePassed(now, last)
               THEN /\ last' = now
                    /\ watch' = watch + 1
                    /\ seen' = Append(seen, [at |-> now, sent |-> TRUE])
               ELSE /\ seen' = Append(seen, [at |-> now, sent |-> FALSE])
                    /\ UNCHANGED <<last, watch>>
    /\ UNCHANGED now

\* The watcher thread of main(): notifications arrive while time passes.
NextWatch ==
    \/ Advance /\ UNCHANGED <<execVars, providerVars, storeVars>>
    \/ \E n \in Notifications : Notify(n) /\ UNCHANGED <<execVars, providerVars, storeVars>>

SpecWatch == Init /\ [][NextWatch]_vars

--------------------------------------------------------------------------
(* The application: Store, Executor and the render tick of main() *)

\* The query the user types.
AppQueries == { <<"a", "-", "b">> }

\* The package the user installs.
AppPackages == { PackageId(<<"a">>, "Repo") }

\* A bound on the jobs of one behaviour that no behaviour reaches when each
\* intent and each signal leads to two jobs at most.
MaxAppJobs == 2 * MaxIntents + 1

\* One more intent of the user, or one more signal of the watcher.
CountedIntent == dispatched < MaxIntents /\ dispatched' = dispatched + 1

\* `let _ = tx_watch.send(())` of the watcher callback.
WatchSignal ==
    /\ CountedIntent
    /\ watch' = watch + 1
    /\ UNCHANGED <<execVars, providerVars, state, next_id, holders, appended, panicked,
                   now, last, seen>>

\* A log line of the Executor or of a provider as the Store's log holds it.
\* The lines of Spec are ASCII and far shorter than the log's capacity; as
\* MAX_LOG is scaled down, so is the line: it stands as the one-byte line
\* "a" of LogLines.
LogLine(log) == IF log = None THEN <<>> ELSE <<"a">>

\* Event::SystemChanged answered by an UpgradeAll job in the upgrades view.
RefreshJobUpgradesAll(st) ==
    IF st.in_upgrades_view THEN <<[kind |-> "UpgradeAll", payload |-> PayloadNone]>>
    ELSE IF Trim(st.query) # <<>>
         THEN <<[kind |-> "Search", payload |-> PayloadQuery(st.query)]>>
         ELSE <<>>

\* The job the Event::SystemChanged arm sends, if any: an Upgrades job in
\* the upgrades view, else a Search job with the query as typed when its
\* trim is not empty, else none.
RefreshJob(st) ==
    IF st.in_upgrades_view THEN <<[kind |-> "Upgrades", payload |-> PayloadNone]>>
    ELSE IF Trim(st.query) # <<>>
         THEN <<[kind |-> "Search", payload |-> PayloadQuery(st.query)]>>
         ELSE <<>>

\* store.dispatch(Action::Progress(p)) inside the render closure.  `ui` is
\* what the closure has done so far: the AppState, the log lines given, the
\* jobs sent, next_id, whether a dispatch panicked, what the channels hold.
UiAfterProgress(ui, p) ==
    LET l == LogLine(p.log)
        log == IF l = <<>> THEN ui.state.progress_log
               ELSE Pushed(ui.state.progress_log, l)
        given == IF l = <<>> THEN ui.appended ELSE Append(ui.appended, l \o <<"LF">>)
    IN IF IsCharBoundary(log, Cut(log))
       THEN [ui EXCEPT !.appended = given,
                       !.state = [@ EXCEPT !.progress_log = Drained(log, Cut(log)),
                                           !.error = ErrorAfterProgress(@, p.stage)]]
       ELSE [ui EXCEPT !.appended = given, !.panicked = TRUE]

\* store.dispatch(Action::Event(e)) inside the render closure.
UiAfterEvent(ui, e) ==
    CASE e.tag = "SearchResults" ->
            [ui EXCEPT !.state = AfterSearchResults(@, e.items)]
      [] e.tag = "Upgrades" ->
            [ui EXCEPT !.state = AfterUpgrades(@, e.items)]
      [] e.tag = "Details" -> ui
      [] e.tag = "SystemChanged" ->
            LET r == RefreshJob(ui.state) IN
               IF r = <<>> THEN ui
               ELSE [ui EXCEPT
                        !.sent = Append(@, Job(ui.next_id, r[1].kind, r[1].payload,
                                               Len(submitted) + Len(@) + 1)),
                        !.next_id = @ + 1]

\* The element of a set of one element.  `Only({F(u) : u \in {e}})` is F(e),
\* with e computed once.
Only(S) == CHOOSE x \in S : TRUE

\* `while let Ok(p) = rx_prog.try_recv() { store.dispatch(Action::Progress(p)); }`
RECURSIVE DrainProgress(_)
DrainProgress(ui) ==
    IF ui.prog = <<>> \/ ui.panicked THEN ui
    ELSE Only({ DrainProgress(u) :
                  u \in {UiAfterProgress([ui EXCEPT !.prog = Tail(@)], Head(ui.prog))} })

\* `while let Ok(e) = rx_evt.try_recv() { store.dispatch(Action::Event(e)); }`
RECURSIVE DrainEvents(_)
DrainEvents(ui) ==
    IF ui.evt = <<>> \/ ui.panicked THEN ui
    ELSE Only({ DrainEvents(u) :
                  u \in {UiAfterEvent([ui EXCEPT !.evt = Tail(@)], Head(ui.evt))} })

\* The rest of the closure: the watch channel is emptied and, if it held a
\* signal, one SystemChanged is dispatched.
DrainWatch(ui) ==
    IF ui.panicked THEN ui
    ELSE IF ui.watch > 0 THEN UiAfterEvent([ui EXCEPT !.watch = 0], EventSystemChanged)
    ELSE ui

\* The closure given to run_desktop_app, called for every frame, when a
\* channel holds something: the progress channel is emptied into the Store,
\* then the event channel, then the watch channel.
Tick ==
    /\ ~panicked
    /\ prog # <<>> \/ evt # <<>> \/ watch > 0
    /\ \E ui \in { DrainWatch(u2) :
                     u2 \in { DrainEvents(u1) :
                                u1 \in { DrainProgress(u0) :
                                           u0 \in {[state |-> state, appended |-> appended,
                                                    panicked |-> FALSE, sent |-> <<>>,
                                                    next_id |-> next_id, prog |-> prog,
                                                    evt |-> evt, watch |-> watch]} } } } :
          /\ Len(submitted) + Len(ui.sent) <= MaxAppJobs
          /\ state' = ui.state
          /\ appended' = ui.appended
          /\ panicked' = ui.panicked
          /\ next_id' = ui.next_id
          /\ jobs' = jobs \o ui.sent
          /\ submitted' = submitted \o ui.sent
          /\ holders' = holders \cup {<<ui.sent[i].cancel, "job">> : i \in 1..Len(ui.sent)}
          /\ prog' = ui.prog
          /\ evt' = ui.evt
          /\ watch' = ui.watch
    /\ UNCHANGED <<pc, cur, call, nlines, any_ok, items, res, lock, trace, providerVars,
                   dispatched, now, last, seen>>

\* The program of main(): the user's intents reach the Store between two
\* frames, the watcher signals, the Executor's thread works through the
\* jobs, and the render tick feeds what the channels hold to the Store.
NextApp ==
    \/ \E q \in AppQueries : CountedIntent /\ DispatchSetQuery(q)
    \/ CountedIntent /\ DispatchSearch
    \/ CountedIntent /\ DispatchUpgrades
    \/ \E id \in AppPackages : CountedIntent /\ DispatchPackage("Install", id)
    \/ WatchSignal
    \/ \E w \in Workers : Dequeue(w) /\ UNCHANGED <<providerVars, storeVars, watchVars>>
    \/ \E w \in Workers : SearchShort(w) /\ UNCHANGED <<providerVars, storeVars, watchVars>>
    \/ \E w \in Workers : StartSearch(w) /\ UNCHANGED <<providerVars, storeVars, watchVars>>
    \/ \E w \in Workers : StartMutating(w) /\ UNCHANGED <<providerVars, storeVars, watchVars>>
    \/ \E w \in Workers : StartUpgrades(w) /\ UNCHANGED <<providerVars, storeVars, watchVars>>
    \/ \E w \in Workers : ReturnSearchRepo(w) /\ UNCHANGED <<providerVars, storeVars, watchVars>>
    \/ \E w \in Workers : ReturnSearchAur(w) /\ UNCHANGED <<providerVars, storeVars, watchVars>>
    \/ \E w \in Workers : ReturnMutating(w) /\ UNCHANGED <<providerVars, storeVars, watchVars>>
    \/ \E w \in Workers : ReturnUpgradesRepo(w) /\ UNCHANGED <<providerVars, storeVars, watchVars>>
    \/ \E w \in Workers : ReturnUpgradesAur(w) /\ UNCHANGED <<providerVars, storeVars, watchVars>>
    \/ \E w \in Workers : Finish(w) /\ UNCHANGED <<providerVars, storeVars, watchVars>>
    \/ Tick

\* The render closure has something to take from a channel.
TickEnabled == ~panicked /\ (prog # <<>> \/ evt # <<>> \/ watch > 0)

\* The Executor's thread and the render loop both run whenever they have a
\* step to take: weak fairness of the worker's steps and of Tick, the
\* latter with its enabling condition written out.
SpecApp ==
    /\ Init /\ [][NextApp]_vars
    /\ WF_vars(WorkerStep)
    /\ ([]<>(~TickEnabled) \/ []<><<Tick>>_vars)

--------------------------------------------------------------------------
(* Reading the history *)

\* The jobs a worker has dequeued so far.
Dequeued == {trace[i].job : i \in 1..Len(trace)}

\* The positions of the history that belong to job j.
Of(j) == {i \in 1..Len(trace) : trace[i].job = j}

IsProgress(e) == e.act = "progress"
IsQueued(e) == IsProgress(e) /\ e.by = "executor" /\ e.p.stage = "Queued"
IsTerminal(e) == IsProgress(e) /\ e.p.stage \in {"Finished", "Failed"}
IsWarning(e) ==
    IsProgress(e) /\ e.by = "executor" /\ e.p.warning /\ e.p.stage \notin {"Finished", "Failed"}
IsCall(e) == e.act = "call"
IsReturn(e) == e.act = "ret"
IsEvent(e) == e.act = "event"

Terminals(j) == {i \in Of(j) : IsTerminal(trace[i])}
Events(j) == {i \in Of(j) : IsEvent(trace[i])}
Calls(j) == {i \in Of(j) : IsCall(trace[i])}
Returns(j) == {i \in Of(j) : IsReturn(trace[i])}
FailedReturns(j) == {i \in Returns(j) : ~trace[i].p.r.ok}
Warnings(j) == {i \in Of(j) : IsWarning(trace[i])}

\* The job has been through its whole loop iteration.
Done(j) == Terminals(j) # {}

\* The worker that is processing job j now, if any.
Processing(j) == {w \in Workers : pc[w] # "recv" /\ cur[w].cancel = j}

--------------------------------------------------------------------------
(* Claims *)

\* The workers that are inside a mutating backend call.
InMutatingCall == {w \in Workers : pc[w] = "call" /\ call[w].op \in MutatingOps}

\* C1: with two Executor threads and any queue of Install / Remove / Upgrade /
\* UpgradeAll jobs, at most one mutating backend call is in progress at any
\* time.
C1_MutualExclusion == Cardinality(InMutatingCall) <= 1

\* A worker is inside a mutating call while the other one has dequeued a
\* mutating job and waits for the lock.
C1_Witness ==
    \E w1, w2 \in Workers :
        /\ w1 # w2
        /\ w1 \in InMutatingCall
        /\ pc[w2] = "run"
        /\ cur[w2].kind \in MutatingKinds

\* C2: jobs are processed in the order they were enqueued, whatever their
\* kinds and ids: when the Queued Progress of a job is sent, every job
\* enqueued before it has had its Queued Progress, and nothing of an earlier
\* job (its Queued Progress, a backend call) comes after it.
C2_FifoOrder ==
    \A k \in 1..Len(trace) :
        IsQueued(trace[k]) =>
            /\ \A j1 \in 1..(trace[k].job - 1) :
                  \E i \in 1..(k - 1) : IsQueued(trace[i]) /\ trace[i].job = j1
            /\ \A i \in 1..Len(trace) :
                  (trace[i].job < trace[k].job /\ (IsQueued(trace[i]) \/ IsCall(trace[i])))
                      => i < k

\* Two jobs of different kinds, the later one with the smaller id, have both
\* been dequeued and the earlier one made a backend call.
C2_Witness ==
    /\ Len(submitted) = 2
    /\ submitted[1].id > submitted[2].id
    /\ submitted[1].kind # submitted[2].kind
    /\ Calls(1) # {}
    /\ 2 \in Dequeued

\* What the claim says the terminal Progress of `job` is when its result
\* is r.
ClaimedTerminal(p, job, r) ==
    /\ p.job_id = job.id
    /\ IF r.ok
       THEN p.stage = "Finished" /\ p.percent = "1.0" /\ p.warning = FALSE
       ELSE p.stage = "Failed" /\ p.warning = TRUE /\ p.log = ErrToString(r.err)

\* C3: every dequeued job gets exactly one terminal Progress, sent by the
\* Executor with the job's id at the end of its iteration and after every
\* other message of the job; it is Finished (percent 1.0, no warning) when
\* the job's result is Ok and Failed (warning, log = the error's message)
\* when it is an error.
C3_OneTerminal ==
    /\ \A j \in Dequeued :
          /\ Cardinality(Terminals(j)) = (IF Processing(j) = {} THEN 1 ELSE 0)
          /\ \A t \in Terminals(j) :
                /\ trace[t].by = "executor"
                /\ trace[t].p.job_id = submitted[j].id
                /\ \A i \in Of(j) : i <= t
    /\ \A w \in Workers :
          (pc[w] = "recv" /\ cur[w] # NoJob) =>
              \A t \in Terminals(cur[w].cancel) :
                  ClaimedTerminal(trace[t].p, cur[w], res[w])

\* One job has ended Failed with its error's message and another Finished.
C3_Witness ==
    /\ \E i \in 1..Len(trace) :
          /\ IsTerminal(trace[i])
          /\ trace[i].p.stage = "Failed"
          /\ trace[i].p.log = "network: timeout"
    /\ \E i \in 1..Len(trace) : IsTerminal(trace[i]) /\ trace[i].p.stage = "Finished"
    /\ \A w \in Workers : pc[w] = "recv"

\* C4: the first thing that happens for a dequeued job is the Queued
\* Progress with the job's id: it precedes every backend call, Event and
\* other Progress of the job.
C4_QueuedFirst ==
    \A j \in Dequeued :
        \E k \in Of(j) :
            /\ IsQueued(trace[k])
            /\ trace[k].p.job_id = submitted[j].id
            /\ \A i \in Of(j) : i # k => (k < i /\ ~IsQueued(trace[i]))

\* A job has had its Queued Progress, a backend call, a provider's line, an
\* Event and its terminal Progress.
C4_Witness ==
    \E j \in Dequeued :
        /\ Calls(j) # {}
        /\ Events(j) # {}
        /\ \E i \in Of(j) : IsProgress(trace[i]) /\ trace[i].by # "executor"
        /\ Done(j)

\* The positions where SystemChanged was published for job j.
SystemChangedOf(j) == {i \in Events(j) : trace[i].p.tag = "SystemChanged"}

\* C5: a job of kind Install, Remove, Upgrade or UpgradeAll that ended
\* Finished has a SystemChanged event, sent before its terminal Progress, and
\* the event is on the event channel.
C5_SystemChangedBeforeTerminal ==
    /\ \A j \in Dequeued :
          \A t \in Terminals(j) :
              (trace[t].p.stage = "Finished" /\ submitted[j].kind \in MutatingKinds)
                  => \E i \in SystemChangedOf(j) : i < t
    /\ Cardinality({i \in 1..Len(evt) : evt[i].tag = "SystemChanged"})
          = Cardinality({i \in 1..Len(trace) :
                            IsEvent(trace[i]) /\ trace[i].p.tag = "SystemChanged"})

\* Jobs of all four mutating kinds cannot fit one behaviour: an UpgradeAll
\* job and another mutating job have both ended Finished.
C5_Witness ==
    /\ \E j \in Dequeued :
          /\ submitted[j].kind = "UpgradeAll"
          /\ \E t \in Terminals(j) : trace[t].p.stage = "Finished"
    /\ \E j \in Dequeued :
          /\ submitted[j].kind \in {"Install", "Remove", "Upgrade"}
          /\ Returns(j) # {}
          /\ \E t \in Terminals(j) : trace[t].p.stage = "Finished"

\* C6: the transaction lock is held by a worker only while that worker is
\* inside a mutating backend call; with the one worker of the program it is
\* free once the call has returned (Ok, an error or Cancelled): when
\* SystemChanged and the terminal Progress are sent and when the next job is
\* dequeued.
C6_LockReleased ==
    \A w \in Workers :
        /\ lock = w => w \in InMutatingCall
        /\ pc[w] \in {"post", "recv", "run"} => lock = 0

\* A mutating call has returned Error::Cancelled, and the next mutating job
\* has entered its backend call.
C6_Witness ==
    /\ \E i \in Returns(1) :
          /\ trace[i].p.call.op \in MutatingOps
          /\ trace[i].p.r = Err(Error("Cancelled", ""))
    /\ \E i \in Calls(2) : trace[i].p.op \in MutatingOps

\* The payload gives the Search arm a query of fewer than 2 bytes: it is
\* no Query, or its query trimmed is shorter than 2.
ShortQuery(payload) == payload.tag # "Query" \/ StrLen(Trim(payload.q)) < 2

\* C7: a Search job whose trimmed query is shorter than 2 (or whose payload
\* is not a Query) calls no provider, publishes exactly one SearchResults
\* event, with no items, and ends Finished.
C7_ShortSearch ==
    \A j \in Dequeued :
        (submitted[j].kind = "Search" /\ ShortQuery(submitted[j].payload)) =>
            /\ Calls(j) = {}
            /\ Cardinality(Events(j)) <= 1
            /\ Done(j) =>
                  /\ \E i \in Events(j) :
                        /\ trace[i].p.tag = "SearchResults"
                        /\ trace[i].p.items = <<>>
                        /\ \E k \in 1..Len(evt) : evt[k] = trace[i].p
                  /\ \A t \in Terminals(j) : trace[t].p.stage = "Finished"

\* A Search job whose query is short only once trimmed, and one whose
\* payload is not a Query, have both ended.
C7_Witness ==
    /\ \E j \in Dequeued :
          /\ submitted[j].kind = "Search"
          /\ submitted[j].payload = PayloadQuery(<<" ", "a", " ">>)
          /\ Done(j)
    /\ \E j \in Dequeued :
          /\ submitted[j].kind = "Search"
          /\ submitted[j].payload.tag # "Query"
          /\ Done(j)

\* The sequence is in ascending order of name.
IsSortedByName(s) ==
    \A i, k \in 1..Len(s) : i < k => ~StrLess(s[k].id.name, s[i].id.name)

Occurrences(x, s) == Cardinality({i \in 1..Len(s) : s[i] = x})

\* Both sequences hold the same items, each as many times.
SameItems(s, t) ==
    /\ Len(s) = Len(t)
    /\ \A i \in 1..Len(s) : Occurrences(s[i], s) = Occurrences(s[i], t)

\* The items of the provider calls of job j that returned Ok, in call order.
RECURSIVE OkItemsFrom(_, _)
OkItemsFrom(j, i) ==
    IF i > Len(trace) THEN <<>>
    ELSE (IF i \in Returns(j) /\ trace[i].p.r.ok THEN trace[i].p.r.val ELSE <<>>)
             \o OkItemsFrom(j, i + 1)

OkItems(j) == OkItemsFrom(j, 1)

\* The name the warning line gives the provider.
ProviderLabel(b) == IF b = "repo" THEN "repo" ELSE "AUR"

\* The warning line the Executor sends for the failed return at position i.
ClaimedWarning(i, what) ==
    ProviderLabel(trace[i].p.call.backend) \o " " \o what \o " failed: "
        \o ErrToString(trace[i].p.r.err)

\* C8: a Search job with a query of length >= 2 in which one provider failed
\* and the other returned items publishes one SearchResults event with
\* exactly the other provider's items in ascending order of name; the
\* Executor sends exactly one warning line, which names the failed provider;
\* the job ends Finished.
C8_PartialSearch ==
    \A j \in Dequeued :
        (/\ submitted[j].kind = "Search"
         /\ Done(j)
         /\ Cardinality(Returns(j)) = 2
         /\ Cardinality(FailedReturns(j)) = 1) =>
            /\ Cardinality(Events(j)) = 1
            /\ \A e \in Events(j) :
                  /\ trace[e].p.tag = "SearchResults"
                  /\ SameItems(trace[e].p.items, OkItems(j))
                  /\ IsSortedByName(trace[e].p.items)
                  /\ \E k \in 1..Len(evt) : evt[k] = trace[e].p
            /\ Cardinality(Warnings(j)) = 1
            /\ \A i \in Warnings(j) : \A f \in FailedReturns(j) :
                  trace[i].p.log = ClaimedWarning(f, "search")
            /\ \A t \in Terminals(j) : trace[t].p.stage = "Finished"

\* A Search job has ended in which the Repo provider failed and the AUR
\* provider returned its items out of order.
C8_Witness ==
    \E j \in Dequeued :
        /\ submitted[j].kind = "Search"
        /\ Done(j)
        /\ \E f \in FailedReturns(j) : trace[f].p.call.backend = "repo"
        /\ Len(OkItems(j)) = 2
        /\ ~IsSortedByName(OkItems(j))

\* C9: a Search job with a query of length >= 2 in which both providers
\* failed publishes no SearchResults event; the Executor sends two warning
\* lines; the job's result is an error and its terminal Progress is Failed.
C9_FailedSearch ==
    \A j \in Dequeued :
        (submitted[j].kind = "Search" /\ Cardinality(FailedReturns(j)) = 2) =>
            /\ Events(j) = {}
            /\ Cardinality(Warnings(j)) = 2
            /\ \A w \in Processing(j) : pc[w] = "post" /\ ~res[w].ok
            /\ \A t \in Terminals(j) : trace[t].p.stage = "Failed"

\* A Search job in which both providers failed has ended.
C9_Witness ==
    \E j \in Dequeued :
        /\ submitted[j].kind = "Search"
        /\ Cardinality(FailedReturns(j)) = 2
        /\ Done(j)

\* C10 as claimed: an Upgrades job in which both providers failed publishes
\* no Upgrades event and ends Failed.
C10_FailsWhenAllFail ==
    \A j \in Dequeued :
        (/\ submitted[j].kind = "Upgrades"
         /\ Done(j)
         /\ Cardinality(FailedReturns(j)) = 2) =>
            /\ Events(j) = {}
            /\ \A t \in Terminals(j) : trace[t].p.stage = "Failed"

\* C10 as amended: an Upgrades job never fails because of its providers.  It
\* calls both, sends one warning line per provider that failed, publishes one
\* Upgrades event with the items of the providers that succeeded in ascending
\* order of name (no items when both failed), and ends Finished.
C10_UpgradesNeverFail ==
    \A j \in Dequeued :
        (submitted[j].kind = "Upgrades" /\ Done(j)) =>
            /\ Cardinality(Returns(j)) = 2
            /\ Cardinality(Warnings(j)) = Cardinality(FailedReturns(j))
            /\ \A i \in Warnings(j) : \E f \in FailedReturns(j) :
                  trace[i].p.log = ClaimedWarning(f, "upgrades")
            /\ Cardinality(Events(j)) = 1
            /\ \A e \in Events(j) :
                  /\ trace[e].p.tag = "Upgrades"
                  /\ SameItems(trace[e].p.items, OkItems(j))
                  /\ IsSortedByName(trace[e].p.items)
                  /\ \E k \in 1..Len(evt) : evt[k] = trace[e].p
            /\ \A t \in Terminals(j) : trace[t].p.stage = "Finished"

\* An Upgrades job in which both providers failed has ended, and so has one
\* in which both returned items.
C10_Witness ==
    /\ \E j \in Dequeued :
          /\ submitted[j].kind = "Upgrades"
          /\ Cardinality(FailedReturns(j)) = 2
          /\ Done(j)
    /\ \E j \in Dequeued :
          /\ submitted[j].kind = "Upgrades"
          /\ Len(OkItems(j)) = 4
          /\ Done(j)

\* The kinds whose arm goes through `pick`.
PickedKinds == {"Refresh", "Details", "Install", "Remove", "Upgrade"}

\* The backend the claim assigns to a payload.
ClaimedBackend(payload) ==
    IF payload.tag = "Package" /\ payload.pkg.source = "Aur" THEN "aur" ELSE "repo"

\* C11: for a Refresh, Details, Install, Remove or Upgrade job the backend is
\* a function of the payload alone: the AUR provider exactly when the payload
\* is a Package whose source is Aur, the Repo provider otherwise.  The job
\* makes at most one backend call, the operation of its kind on that
\* provider, and nothing on the other provider.
C11_PickByPayload ==
    \A j \in Dequeued :
        submitted[j].kind \in PickedKinds =>
            /\ Cardinality(Calls(j)) <= 1
            /\ \A i \in Calls(j) :
                  /\ trace[i].p.backend = ClaimedBackend(submitted[j].payload)
                  /\ trace[i].p.op = OpOf(submitted[j].kind)
            /\ \A i \in Of(j) :
                  trace[i].by \in {"executor", ClaimedBackend(submitted[j].payload)}

\* An Install of an AUR package has gone to the AUR provider, which has
\* returned, and a Refresh with no payload has gone to the Repo provider.
C11_Witness ==
    /\ \E j \in Dequeued :
          /\ submitted[j].kind = "Install"
          /\ submitted[j].payload.tag = "Package"
          /\ submitted[j].payload.pkg.source = "Aur"
          /\ \E i \in Returns(j) : trace[i].by = "aur"
    /\ \E j \in Dequeued :
          /\ submitted[j].kind = "Refresh"
          /\ submitted[j].payload.tag = "None"
          /\ \E i \in Calls(j) : trace[i].p.backend = "repo"

\* C12: a Details job with a Package payload calls details once, on the
\* provider matching the package's source.  It publishes exactly one Details
\* event, of that package, exactly when the call returned Ok; when the call
\* returned an error it publishes nothing and its terminal Progress is
\* Failed with that error.
C12_Details ==
    \A j \in Dequeued :
        (submitted[j].kind = "Details" /\ submitted[j].payload.tag = "Package" /\ Done(j)) =>
            /\ Cardinality(Calls(j)) = 1
            /\ \A i \in Calls(j) :
                  /\ trace[i].p.op = "details"
                  /\ trace[i].p.backend = ClaimedBackend(submitted[j].payload)
            /\ Cardinality(Returns(j)) = 1
            /\ \A i \in Returns(j) :
                  IF trace[i].p.r.ok
                  THEN /\ Cardinality(Events(j)) = 1
                       /\ \A e \in Events(j) :
                             /\ trace[e].p.tag = "Details"
                             /\ trace[e].p.items[1].id = submitted[j].payload.pkg
                             /\ e > i
                             /\ \E k \in 1..Len(evt) : evt[k] = trace[e].p
                       /\ \A t \in Terminals(j) : trace[t].p.stage = "Finished"
                  ELSE /\ Events(j) = {}
                       /\ \A t \in Terminals(j) :
                             ClaimedTerminal(trace[t].p, submitted[j], trace[i].p.r)

\* One Details job of a package has ended with its Details event, and one
\* whose details call failed has ended too.
C12_Witness ==
    /\ \E j \in Dequeued :
          /\ submitted[j].kind = "Details"
          /\ submitted[j].payload.tag = "Package"
          /\ Done(j)
          /\ \E e \in Events(j) : trace[e].p.tag = "Details"
    /\ \E j \in Dequeued :
          /\ submitted[j].kind = "Details"
          /\ submitted[j].payload.tag = "Package"
          /\ Done(j)
          /\ FailedReturns(j) # {}

\* The tokens of the jobs submitted so far.
Tokens == 1..Len(submitted)

\* C13: a CancelToken is monotone.  Once cancel() has been called on any
\* clone of a token, is_cancelled() is true on every clone from then on,
\* whatever the callers, the Executor and the providers do next, cancel()
\* again included.
C13_Monotone ==
    [][\A t \in Tokens : is_cancelled(cancelled, t) => is_cancelled(cancelled', t)]_vars

\* The token of a job was cancelled, and the job has since run to its end.
C13_Witness == \E t \in Tokens : is_cancelled(cancelled, t) /\ Done(t)

\* The worker is in install of the Repo provider.
InRepoInstall(w) == pc[w] = "call" /\ call[w] = Call("repo", "install")

\* The jobs that are an Install of a Repo package.
RepoInstalls ==
    {j \in Dequeued : submitted[j].kind = "Install"
                      /\ submitted[j].payload.tag = "Package"
                      /\ submitted[j].payload.pkg.source = "Repo"}

\* C14: when the token of an Install job is cancelled while the Repo
\* provider polls the subprocess, the poll that finds the subprocess still
\* running sends it SIGTERM and the call is set to return Error::Cancelled,
\* which it does once the subprocess has ended.  The job then ends with a
\* terminal Progress of stage Failed ("cancelled") and no SystemChanged.
C14_CancelInstall ==
    /\ [][\A w \in Workers :
            (InRepoInstall(w) /\ frame.at = "check" /\ frame'.at # "check"
             /\ is_cancelled(cancelled, cur[w].cancel))
                => /\ cur[w].cancel \in killed'
                   /\ frame'.at = "wait"
                   /\ frame'.r = Err(Error("Cancelled", ""))]_vars
    /\ [](\A j \in RepoInstalls :
            /\ \A i \in Returns(j) :
                  j \in killed => /\ trace[i].p.r = Err(Error("Cancelled", ""))
                                  /\ ~child[j].running
            /\ (j \in killed /\ Done(j)) =>
                  /\ Returns(j) # {}
                  /\ Events(j) = {}
                  /\ \A t \in Terminals(j) :
                        /\ trace[t].p.stage = "Failed"
                        /\ trace[t].p.log = "cancelled")

\* An Install of a Repo package was cancelled while its call polled the
\* running subprocess; the subprocess got SIGTERM and the job has ended.
C14_Witness ==
    \E j \in RepoInstalls : j \in interrupted /\ j \in killed /\ Done(j)

\* The calls of job j that have returned, of an operation that runs an
\* external command.
CommandReturns(j) ==
    {i \in Returns(j) :
        \/ trace[i].p.call.backend = "repo" /\ trace[i].p.call.op \in StreamOps
        \/ trace[i].p.call.backend = "aur" /\ trace[i].p.call.op \in AurCommandOps}

\* C15 as stated: in both providers, a call whose token is cancelled while
\* it waits on its external operation terminates the operation and returns
\* Error::Cancelled.
C15_AllHonourCancel ==
    \A j \in Dequeued : \A i \in CommandReturns(j) :
        j \in interrupted =>
            /\ j \in killed
            /\ trace[i].p.r = Err(Error("Cancelled", ""))

\* C15 as amended: the Repo provider honours cancellation at its polls, in
\* refresh, install, remove, upgrade and upgrade_all alike: a poll that finds
\* the subprocess running and the token cancelled sends SIGTERM, and the
\* call returns Error::Cancelled exactly when it sent SIGTERM, after the
\* subprocess has ended.  The AUR provider never reads the token: its install
\* and remove send no signal, never return Error::Cancelled and return what
\* the exit status of their command says, also when the token was cancelled
\* while they waited.
C15_RepoHonoursCancel ==
    /\ [][\A w \in Workers :
            (pc[w] = "call" /\ frame.at = "check" /\ frame'.at # "check"
             /\ is_cancelled(cancelled, cur[w].cancel))
                => /\ cur[w].cancel \in killed'
                   /\ frame'.r = Err(Error("Cancelled", ""))]_vars
    /\ [](\A j \in Dequeued : \A i \in CommandReturns(j) :
            IF trace[i].p.call.backend = "repo"
            THEN /\ (trace[i].p.r = Err(Error("Cancelled", ""))) <=> (j \in killed)
                 /\ j \in killed => (is_cancelled(cancelled, j) /\ ~child[j].running)
            ELSE /\ j \notin killed
                 /\ trace[i].p.r = AurResult(trace[i].p.call.op, child[j].code))

\* An install or remove of the AUR provider was cancelled while it waited on
\* its command, and has returned Ok all the same.
C15_Witness ==
    \E j \in Dequeued : \E i \in CommandReturns(j) :
        /\ trace[i].p.call.backend = "aur"
        /\ j \in interrupted
        /\ trace[i].p.r.ok

\* C16 as stated: when a call that went through run_stream has returned, on
\* whichever path, both helper threads have been joined, and no Progress line
\* of that call is sent after the return.
C16_HelpersJoined ==
    \A j \in Dequeued : \A i \in Returns(j) :
        trace[i].p.call.backend = "repo" =>
            /\ helpers[j] \in { <<"none", "none">>, <<"joined", "joined">> }
            /\ \A k \in Of(j) : (IsProgress(trace[k]) /\ trace[k].by = "repo") => k < i

\* C17 as stated: every Job the Store sent carries a token that was not
\* cancelled when the Job was created and that no other Job carries, and the
\* Store, its issuer, holds a clone of that token.
C17_TokenSharedWithIssuer ==
    \A i \in 1..Len(submitted) :
        /\ (\E k \in 1..Len(jobs) : jobs[k] = submitted[i])
              => ~is_cancelled(cancelled, submitted[i].cancel)
        /\ \A k \in 1..Len(submitted) : k # i => submitted[k].cancel # submitted[i].cancel
        /\ <<submitted[i].cancel, "store">> \in holders

\* C18 as stated: in every reachable AppState, selected is absent or is the
\* id of an element of results.
C18_SelectedInResults ==
    state.selected = NoPackage \/ HasId(state.results, state.selected)

\* C19 as stated: a SearchResults or Upgrades event reduced with a selection
\* keeps the selection when the new results contain its id and clears it
\* when they do not.
C19_SelectionPreserved ==
    [][\A its \in StoreItems :
          ((DispatchSearchResults(its) \/ DispatchUpgradesEvent(its))
           /\ state.selected # NoPackage)
              => state'.selected = IF HasId(state'.results, state.selected)
                                   THEN state.selected ELSE NoPackage]_vars

RECURSIVE Concat(_)
Concat(ss) == IF ss = <<>> THEN <<>> ELSE Head(ss) \o Concat(Tail(ss))

\* The longest suffix of s that is at most n bytes long.
LongestSuffix(s, n) ==
    LET k == CHOOSE k \in 0..Len(s) :
                /\ StrLen(SubSeq(s, k + 1, Len(s))) <= n
                /\ \A m \in 0..(k - 1) : StrLen(SubSeq(s, m + 1, Len(s))) > n
    IN SubSeq(s, k + 1, Len(s))

\* C20 as stated: after any sequence of Progress actions, progress_log is at
\* most MAX_LOG bytes long and is the longest such suffix of all the log
\* lines appended so far, each with its newline.
C20_LogIsSuffix ==
    /\ StrLen(state.progress_log) <= MAX_LOG
    /\ state.progress_log = LongestSuffix(Concat(appended), MAX_LOG)

\* What holds of the log as long as no dispatch has panicked.
LogIsSuffixUnlessPanicked == panicked \/ C20_LogIsSuffix


SendsOne(kind, payload) ==
    /\ Len(jobs') = Len(jobs) + 1
    /\ SubSeq(jobs', 1, Len(jobs)) = jobs
    /\ jobs'[Len(jobs')].kind = kind
    /\ jobs'[Len(jobs')].payload = payload

\* This step puts no job on the queue.
SendsNone == jobs' = jobs

\* C22: reducing Event::SystemChanged sends exactly one Upgrades job in the
\* upgrades view; otherwise exactly one Search job with the query as it
\* stands when its trim is not empty; otherwise no job.  In all three cases
\* the AppState is left as it was.
C22_SystemChanged ==
    [][DispatchSystemChanged =>
          /\ state' = state
          /\ IF state.in_upgrades_view THEN SendsOne("Upgrades", PayloadNone)
             ELSE IF Trim(state.query) # <<>>
                  THEN SendsOne("Search", PayloadQuery(state.query))
             ELSE SendsNone]_vars

\* A Search job carries the query with its leading blank: only SystemChanged
\* sends the query untrimmed.
C22_Witness ==
    \E i \in 1..Len(submitted) :
        /\ submitted[i].kind = "Search"
        /\ submitted[i].payload = PayloadQuery(<<" ", "a">>)


\* C23: the ids of the jobs the Store has sent are strictly increasing in
\* the order of sending, hence pairwise distinct, whether a UI intent or a
\* SystemChanged event sent them.
C23_IdsIncrease ==
    \A i, k \in 1..Len(submitted) : i < k => submitted[i].id < submitted[k].id

\* An intent sent the first job, SystemChanged the second (the Search whose
\* query kept its blank) and an intent the third.
C23_Witness ==
    /\ Len(submitted) = 3
    /\ submitted[1].kind = "Install"
    /\ submitted[2].kind = "Search"
    /\ submitted[2].payload = PayloadQuery(<<" ", "a">>)
    /\ submitted[3].kind = "UpgradeAll"


\* C24: each intent that triggers an operation puts exactly one job on the
\* queue, of its kind and with its payload: Search a Search job with the
\* (trimmed) query, Upgrades and UpgradeAll their job with no payload,
\* Upgrade, Install and Remove of an id their job with that package.  Every
\* other intent, and every Progress, SearchResults, Upgrades and Details
\* action, puts no job on the queue.
C24_JobPerIntent ==
    [][/\ DispatchSearch => SendsOne("Search", PayloadQuery(Trim(state.query)))
       /\ DispatchUpgrades => SendsOne("Upgrades", PayloadNone)
       /\ DispatchUpgradeAll => SendsOne("UpgradeAll", PayloadNone)
       /\ \A k \in {"Upgrade", "Install", "Remove"}, id \in Packages :
             DispatchPackage(k, id) => SendsOne(k, PayloadPackage(id))
       /\ (\/ \E q \in StoreQueries : DispatchSetQuery(q)
           \/ \E id \in Packages : DispatchSelect(id)
           \/ DispatchClearSelection
           \/ \E f \in Flags : DispatchToggle(f)
           \/ \E m \in SortModes : DispatchSetSort(m)
           \/ DispatchClearError
           \/ \E p \in StoreProgress : DispatchProgress(p)
           \/ \E its \in StoreItems : DispatchSearchResults(its) \/ DispatchUpgradesEvent(its)
           \/ DispatchDetails)
          => SendsNone]_vars

\* Three actions were given: SetQuery and a Failed Progress, which sent
\* nothing, and the Search that sent the query without its blank.
C24_Witness ==
    /\ dispatched = 3
    /\ Len(submitted) = 1
    /\ submitted[1].kind = "Search"
    /\ submitted[1].payload = PayloadQuery(<<"a">>)
    /\ state.error = "operation failed"


\* x is one of the items of s.
InSeq(x, s) == \E i \in 1..Len(s) : s[i] = x

\* The query stage as claimed: the query, trimmed, is empty or is, without
\* regard to case, a substring of the name or of the description.
ClaimedQueryMatch(query, x) ==
    LET q == ToLower(Trim(query)) IN
       \/ q = <<>>
       \/ Contains(ToLower(x.id.name), q)
       \/ Contains(ToLower(x.description), q)

\* The source and installed filters as claimed.
ClaimedKept(st, x) ==
    /\ \/ st.filter_repo /\ x.id.source = "Repo"
       \/ st.filter_aur /\ x.id.source = "Aur"
    /\ st.filter_installed => x.installed

\* C25 as stated: of the items of a SearchResults event that the source and
\* installed filters keep, those in the new results are exactly those whose
\* name or description holds the trimmed query, case ignored; of the items
\* of an Upgrades event that those filters keep, all are in the new results.
C25_QueryStage ==
    [][\A its \in StoreItems :
          /\ DispatchSearchResults(its) =>
                \A i \in 1..Len(its) :
                    ClaimedKept(state, its[i]) =>
                       (InSeq(its[i], state'.results) <=> ClaimedQueryMatch(state.query, its[i]))
          /\ DispatchUpgradesEvent(its) =>
                \A i \in 1..Len(its) :
                    ClaimedKept(state, its[i]) => InSeq(its[i], state'.results)]_vars

\* The query stage as the SearchResults arm applies it: with the query as
\* typed, blanks included.
AppliedQueryMatch(query, x) ==
    \/ query = <<>>
    \/ Contains(ToLower(x.id.name), ToLower(query))
    \/ Contains(ToLower(x.description), ToLower(query))

\* What the code does: the query stage of SearchResults compares with the
\* query as typed; that of Upgrades keeps everything.
C25_QueryStageUntrimmed ==
    [][\A its \in StoreItems :
          /\ DispatchSearchResults(its) =>
                \A i \in 1..Len(its) :
                    ClaimedKept(state, its[i]) =>
                       (InSeq(its[i], state'.results)
                           <=> AppliedQueryMatch(state.query, its[i]))
          /\ DispatchUpgradesEvent(its) =>
                \A i \in 1..Len(its) :
                    ClaimedKept(state, its[i]) => InSeq(its[i], state'.results)]_vars


\* results holds exactly the items of its that keep says to keep: each of
\* them, nothing else, none twice.
HoldsExactly(results, its, keep(_)) ==
    /\ \A i \in 1..Len(its) : InSeq(its[i], results) <=> keep(its[i])
    /\ \A i \in 1..Len(results) : InSeq(results[i], its)
    /\ Len(results) = Cardinality({i \in 1..Len(its) : keep(its[i])})

\* C26: after a SearchResults event the results hold exactly the items of
\* the event that pass the query stage (as the reducer applies it) and the
\* source filter, and that are installed when filter_installed is set; after
\* an Upgrades event exactly those that pass the two filters.  The example's
\* three items under filter_repo alone and NameAsc give the two Repo items,
\* the shorter name first.
C26_Filters ==
    [][\A its \in StoreItems :
          /\ DispatchSearchResults(its) =>
                HoldsExactly(state'.results, its,
                    LAMBDA x : AppliedQueryMatch(state.query, x) /\ ClaimedKept(state, x))
          /\ DispatchUpgradesEvent(its) =>
                HoldsExactly(state'.results, its, LAMBDA x : ClaimedKept(state, x))
          /\ ( /\ its = ExampleItems
               /\ DispatchSearchResults(its) \/ DispatchUpgradesEvent(its)
               /\ state.query = <<>>
               /\ state.filter_repo /\ ~state.filter_aur /\ ~state.filter_installed
               /\ state.sort = "NameAsc" )
             => state'.results = <<ExampleItems[1], ExampleItems[2]>>]_vars

\* The example has happened: filter_aur is off and the results are the two
\* Repo items of the example, in order.
C26_Witness ==
    /\ state.filter_repo /\ ~state.filter_aur
    /\ state.sort = "NameAsc"
    /\ state.results = <<ExampleItems[1], ExampleItems[2]>>


\* The order as claimed: a stands strictly before b under the mode.
ClaimedBefore(mode, a, b) ==
    LET pop(x) == IF x.popular = <<>> THEN 0 ELSE x.popular[1] IN
    CASE mode = "NameAsc"    -> StrLess(a.id.name, b.id.name)
      [] mode = "NameDesc"   -> StrLess(b.id.name, a.id.name)
      [] mode = "Popularity" -> pop(a) > pop(b)

\* Where x stands in its.
IndexIn(x, its) == CHOOSE i \in 1..Len(its) : its[i] = x

\* results is in the order of the mode, and items the mode does not tell
\* apart stand as they stood in its.
OrderedStably(results, its, mode) ==
    \A i, j \in 1..Len(results) :
        i < j =>
           /\ ~ClaimedBefore(mode, results[j], results[i])
           /\ ~ClaimedBefore(mode, results[i], results[j])
                 => IndexIn(results[i], its) < IndexIn(results[j], its)

\* C27: after a SearchResults or Upgrades event the results are in the order
\* of the sort mode (names ascending, names descending, popularity descending
\* with a missing popularity counted as 0), and items that compare equal
\* keep the order they had in the event.
C27_Sorted ==
    [][\A its \in StoreItems :
          (DispatchSearchResults(its) \/ DispatchUpgradesEvent(its))
             => OrderedStably(state'.results, its, state.sort)]_vars

\* Sorted by popularity: the item of popularity 5 first, then the item with
\* none and the item with 0, in the order of the event.
C27_Witness ==
    /\ state.sort = "Popularity"
    /\ state.results = <<TiedItems[2], TiedItems[1], TiedItems[3]>>


\* C28: from any state, reducing one SearchResults event and then the same
\* event again, with nothing in between, leaves after the second reduction
\* the results the first one left: the same items in the same order.
C28_SameResultsTwice ==
    \A its \in StoreItems :
        LET once == AfterSearchResults(state, its)
            twice == AfterSearchResults(once, its)
        IN /\ twice.query = state.query
           /\ twice.sort = state.sort
           /\ twice.results = once.results

\* The results are what a SearchResults event with the items of equal names
\* left, it dropped or moved some of them, and reducing it once more from
\* here leaves the same results.
C28_Witness ==
    /\ dispatched >= 3
    /\ ~state.in_upgrades_view
    /\ state.results # <<>>
    /\ state.results # TiedItems
    /\ state.results = AfterSearchResults(state, TiedItems).results


\* C29: from any state, ToggleFilterRepo dispatched twice in a row leaves
\* filter_repo as it was, and likewise ToggleFilterAur, ToggleFilterInstalled
\* and ToggleLog their flags; one toggle changes the flag.
C29_ToggleTwice ==
    /\ \A f \in Flags : Toggled(Toggled(state, f), f)[f] = state[f]
    /\ [][\A f \in Flags : DispatchToggle(f) => state'[f] = ~state[f]]_vars

\* Four actions after the start filter_installed and log_expanded have been
\* toggled once and nothing else differs from the start: the other two
\* actions were two toggles of one flag, or did nothing to the state.
C29_Witness ==
    /\ dispatched = 4
    /\ state.filter_repo /\ state.filter_aur
    /\ state.filter_installed /\ state.log_expanded
    /\ state.results = <<>> /\ state.query = <<>> /\ state.error = None
    /\ state.selected = NoPackage /\ state.sort = "NameAsc" /\ submitted = <<>>
    /\ ~state.in_upgrades_view /\ state.progress_log = <<>>


\* The times at which the watcher sent a signal, in order.
SignalTimes ==
    LET sent == SelectSeq(seen, LAMBDA e : e.sent) IN [i \in 1..Len(sent) |-> sent[i].at]

\* The number of signals sent by the notifications i..k of seen.
SentBetween(i, k) == Cardinality({m \in i..k : seen[m].sent})

\* C30: the watcher sends at most one signal per cooldown window.  Any two
\* signals are at least one cooldown (1.2 s) apart; the first relevant
\* notification after the start sends a signal; five relevant notifications
\* within 500 ms send at most one signal, and exactly one when the first of
\* them is the first after the start or arrives a cooldown or more after the
\* signal before it; and a relevant notification that arrives a cooldown or
\* more after the latest signal sends a signal.
C30_OnePerCooldown ==
    /\ \A i, k \in 1..Len(SignalTimes) :
          i < k => SignalTimes[k] - SignalTimes[i] >= 12
    /\ seen # <<>> => seen[1].sent
    /\ \A i \in 1..(Len(seen) - 4) :
          seen[i + 4].at - seen[i].at <= 5 =>
             /\ SentBetween(i, i + 4) <= 1
             /\ (i = 1 \/ \A m \in 1..(i - 1) : seen[m].sent => seen[i].at - seen[m].at >= 12)
                   => SentBetween(i, i + 4) = 1
    /\ \A i \in 1..Len(seen) :
          (\A m \in 1..(i - 1) : seen[m].sent => seen[i].at - seen[m].at >= 12)
             => seen[i].sent
    /\ watch = Len(SignalTimes)

\* The example: five relevant notifications within 500 ms of the first, one
\* signal for them; a sixth after the cooldown, and the second signal.
C30_Witness ==
    /\ Len(seen) = 6
    /\ seen[5].at - seen[1].at <= 5
    /\ seen[5].at > seen[1].at
    /\ SentBetween(1, 5) = 1
    /\ seen[6].sent
    /\ watch = 2


\* C31 as stated: every relevant notification, whether it sent a signal or
\* was suppressed, restarts the cooldown, so the debounce timestamp is the
\* time of the latest relevant notification, and a relevant notification
\* that arrives less than one cooldown after the relevant notification
\* before it sends no signal.
C31_RestartOnEveryEvent ==
    /\ seen # <<>> => last = seen[Len(seen)].at
    /\ \A i \in 2..Len(seen) :
          seen[i].at - seen[i - 1].at < 12 => ~seen[i].sent

\* C31 amended: only a notification that sends a signal restarts the
\* cooldown.  The debounce timestamp is the time of the latest signal (one
\* cooldown before the start while there is none), and a relevant
\* notification sends a signal exactly when it arrives a cooldown or more
\* after the latest signal, however recent the suppressed ones before it.
C31_RestartOnSignal ==
    /\ last = IF SignalTimes = <<>> THEN -12 ELSE SignalTimes[Len(SignalTimes)]
    /\ \A i \in 1..Len(seen) :
          seen[i].sent <=>
             \A m \in 1..(i - 1) : seen[m].sent => seen[i].at - seen[m].at >= 12

\* A notification sent a signal less than one cooldown after a suppressed
\* one.
C31_Witness ==
    \E i \in 2..Len(seen) :
        /\ ~seen[i - 1].sent
        /\ seen[i].sent
        /\ seen[i].at - seen[i - 1].at < 12


\* The notifications that may lead to a signal, as claimed: an event, not
\* an error, of kind folder create or remove, rename, or file create or
\* remove, one of whose paths is under the watched root (the root included,
\* as Path::starts_with has it) and is, for the folder kinds, a direct child
\* of the root and has, for the file kinds, the file name desc.
ClaimedRelevant(n) ==
    /\ n.ok
    /\ n.kind \in {"Create(Folder)", "Remove(Folder)", "Modify(Name)",
                   "Create(File)", "Remove(File)"}
    /\ \E i \in 1..Len(n.paths) :
          LET p == n.paths[i] IN
             /\ Len(p) >= 4 /\ SubSeq(p, 1, 4) = <<"var", "lib", "pacman", "local">>
             /\ n.kind \in {"Create(Folder)", "Remove(Folder)"}
                   => Len(p) = 5
             /\ n.kind \in {"Create(File)", "Remove(File)"}
                   => p[Len(p)] = "desc"

\* C32: a notification leads to a signal only if it is one of those; the
\* callback run for any other notification (access, metadata, data
\* modification, an error, paths outside the root, a nested folder, another
\* file name) sends no signal and leaves the debounce timestamp alone: no
\* step that sends or moves the timestamp is the callback's run for one.
C32_OnlyRelevantSignals ==
    [][(last' # last \/ watch' # watch)
          => \A n \in Notifications : ~ClaimedRelevant(n) => ~Notify(n)]_vars

\* Signals were sent, the latest notification to pass the filters was
\* suppressed, and the timestamp is that of the latest signal.
C32_Witness ==
    /\ watch = 2
    /\ Len(seen) >= 3
    /\ ~seen[Len(seen)].sent
    /\ last < seen[Len(seen)].at


\* Job j is a Search with a trimmed query of length 2 or more, or an Upgrades
\* job: the jobs that go to both providers.
FansOut(j) ==
    \/ submitted[j].kind = "Search" /\ ~ShortQuery(submitted[j].payload)
    \/ submitted[j].kind = "Upgrades"

\* The calls of job j to provider b, and the returns from them.
CallsTo(j, b) == {i \in Calls(j) : trace[i].p.backend = b}
ReturnsFrom(j, b) == {i \in Returns(j) : trace[i].p.call.backend = b}

\* C33: in a Search job with a trimmed query of length 2 or more and in an
\* Upgrades job each provider is called at most once, and exactly once by
\* the end of the job, with the operation of the job's kind; the AUR
\* provider is called only after the Repo call has returned, and it is
\* called once the Repo call has returned, with Ok or with an error; no call
\* starts before the call before it has returned.
C33_BothProvidersInTurn ==
    \A j \in Dequeued :
        FansOut(j) =>
            /\ Cardinality(CallsTo(j, "repo")) <= 1
            /\ Cardinality(CallsTo(j, "aur")) <= 1
            /\ Calls(j) = CallsTo(j, "repo") \cup CallsTo(j, "aur")
            /\ \A c \in Calls(j) :
                  trace[c].p.op = IF submitted[j].kind = "Search" THEN "search" ELSE "upgrades"
            /\ \A a \in CallsTo(j, "aur") :
                  \E c \in CallsTo(j, "repo"), r \in ReturnsFrom(j, "repo") : c < r /\ r < a
            /\ \A r \in ReturnsFrom(j, "repo") : \E a \in CallsTo(j, "aur") : r < a
            /\ \A c1, c2 \in Calls(j) :
                  c1 < c2 => \E r \in Returns(j) : c1 < r /\ r < c2
            /\ Cardinality(Returns(j)) <= Cardinality(Calls(j))
            /\ Done(j) =>
                  /\ Cardinality(CallsTo(j, "repo")) = 1
                  /\ Cardinality(CallsTo(j, "aur")) = 1
                  /\ Cardinality(Returns(j)) = 2

\* An Upgrades job has ended whose Repo call failed and whose AUR call came
\* after it, and a Search job whose Repo call returned Ok and whose AUR call
\* failed.
C33_Witness ==
    /\ \E j \in Dequeued :
          /\ submitted[j].kind = "Upgrades"
          /\ Done(j)
          /\ \E r \in ReturnsFrom(j, "repo") : ~trace[r].p.r.ok
          /\ CallsTo(j, "aur") # {}
    /\ \E j \in Dequeued :
          /\ submitted[j].kind = "Search"
          /\ Done(j)
          /\ \E r \in ReturnsFrom(j, "repo") : trace[r].p.r.ok
          /\ \E r \in ReturnsFrom(j, "aur") : ~trace[r].p.r.ok


\* C34: the item list a Search or Upgrades job publishes holds the items of
\* the Repo provider followed by those of the AUR provider (of the calls
\* that returned Ok), each as often as it was returned, in ascending order
\* of name; items of one name stand as they stood in that input, a Repo item
\* before an AUR item of the same name.
C34_SortedUnion ==
    \A j \in Dequeued :
        submitted[j].kind \in {"Search", "Upgrades"} =>
            \A e \in Events(j) :
                LET out == trace[e].p.items
                    inp == OkItems(j)
                IN /\ SameItems(out, inp)
                   /\ IsSortedByName(out)
                   /\ \A i, k \in 1..Len(out) :
                         (i < k /\ out[i].id.name = out[k].id.name)
                            => IndexIn(out[i], inp) < IndexIn(out[k], inp)
                   /\ \A i, k \in 1..Len(out) :
                         (/\ out[i].id.name = out[k].id.name
                          /\ out[i].id.source = "Repo"
                          /\ out[k].id.source = "Aur") => i < k

\* An Upgrades job has published the items of both providers: four items,
\* the two of one name next to each other.
C34_Witness ==
    \E j \in Dequeued :
        /\ submitted[j].kind = "Upgrades"
        /\ \E e \in Events(j) :
              /\ Len(trace[e].p.items) = 4
              /\ trace[e].p.items[1].id = PackageId(<<"a">>, "Repo")
              /\ trace[e].p.items[2].id = PackageId(<<"a">>, "Aur")


\* C35: SystemChanged is published at most once for a job, and only for a
\* job of kind Install, Remove, Upgrade or UpgradeAll, after every backend
\* call of the job has returned and none of them returned an error
\* (Cancelled included), so that the job's terminal Progress is Finished;
\* every SystemChanged on the event channel is one of these.
C35_SystemChangedOnlyAfterOk ==
    /\ \A j \in Dequeued :
          /\ Cardinality(SystemChangedOf(j)) <= 1
          /\ \A i \in SystemChangedOf(j) :
                /\ submitted[j].kind \in {"Install", "Remove", "Upgrade", "UpgradeAll"}
                /\ FailedReturns(j) = {}
                /\ Cardinality(Returns(j)) = Cardinality(Calls(j))
                /\ \A r \in Returns(j) : r < i
                /\ i < Len(trace)
                /\ IsTerminal(trace[i + 1])
                /\ trace[i + 1].job = j
                /\ trace[i + 1].p.stage = "Finished"
    /\ Cardinality({i \in 1..Len(evt) : evt[i].tag = "SystemChanged"})
          = Cardinality({j \in Dequeued : SystemChangedOf(j) # {}})

\* A mutating job whose backend call returned an error (Network or
\* Cancelled) has ended without a SystemChanged event, and another mutating
\* job has ended with one.
C35_Witness ==
    /\ \E j \in Dequeued :
          /\ submitted[j].kind \in MutatingKinds
          /\ FailedReturns(j) # {}
          /\ Done(j)
          /\ SystemChangedOf(j) = {}
    /\ \E j \in Dequeued :
          /\ submitted[j].kind \in MutatingKinds
          /\ Done(j)
          /\ SystemChangedOf(j) # {}


\* The Progress messages sent so far, in the order of their sends.
ProgressSent == SelectSeq(trace, IsProgress)

\* The positions of the Progress messages sent while job j was processed.
ProgressOf(j) == {i \in Of(j) : IsProgress(trace[i])}

\* C36: the progress channel holds the Progress messages in the order of
\* their sends; every Progress the Executor itself sends (Queued, the
\* warning of a fan-out arm, terminal) carries the id of the job being
\* processed; and the messages of two jobs do not interleave: when job j2 gets
\* its Queued Progress, every job dequeued before it has had its terminal
\* Progress, and every Progress of an earlier job precedes every Progress of
\* a later one.
C36_NoInterleaving ==
    /\ prog = [i \in 1..Len(ProgressSent) |-> ProgressSent[i].p]
    /\ \A i \in 1..Len(trace) :
          (IsProgress(trace[i]) /\ trace[i].by = "executor")
              => trace[i].p.job_id = submitted[trace[i].job].id
    /\ \A j1, j2 \in Dequeued :
          j1 < j2 =>
              /\ \A k \in ProgressOf(j2) :
                    \E t \in Terminals(j1) : t < k
              /\ \A i \in ProgressOf(j1) : \A k \in ProgressOf(j2) : i < k

\* Two jobs with different ids have been processed to the end; the first
\* one sent a warning of a fan-out arm and a provider's line between its
\* Queued and its terminal Progress.
C36_Witness ==
    /\ Len(submitted) = 2
    /\ submitted[1].id # submitted[2].id
    /\ Warnings(1) # {}
    /\ \E i \in ProgressOf(1) : trace[i].by # "executor"
    /\ Done(1)
    /\ Done(2)


\* While a backend call of job j has not returned, no job enqueued after j
\* has anything in the history, not even its Queued Progress.
StalledBehindCall ==
    \A w \in Workers :
        pc[w] = "call" => \A j \in Dequeued : j <= cur[w].cancel

\* C37: when every backend call returns (the worker is outside a call again
\* and again), every enqueued job gets its terminal Progress; and as long as
\* a call has not returned, no later job gets its Queued Progress.
C37_EveryJobEnds ==
    /\ []StalledBehindCall
    /\ ([]<>(\A w \in Workers : pc[w] # "call"))
          => \A j \in 1..MaxJobs : (Len(submitted) >= j) ~> Done(j)

\* The second job was enqueued and waited while the call of the first had
\* not returned; now the queue is empty and every job has ended.
C37_Witness ==
    /\ Len(submitted) = MaxJobs
    /\ jobs = <<>>
    /\ Returns(1) # {}
    /\ \A j \in 1..MaxJobs : Done(j)
    /\ \A w \in Workers : pc[w] = "recv"


\* C40: SetQuery, the three filter toggles, SetSort, ToggleLog and
\* ClearError leave results and selected as they are and put no job on the
\* queue; results change only when a SearchResults or Upgrades event is
\* reduced, which applies the pipeline under the query, filters and sort
\* mode of that moment, or when a Search with an empty query clears them.
C40_ViewSettingsFrame ==
    [][/\ (\/ \E q \in StoreQueries : DispatchSetQuery(q)
           \/ \E f \in Flags : DispatchToggle(f)
           \/ \E m \in SortModes : DispatchSetSort(m)
           \/ DispatchClearError)
          => /\ state'.results = state.results
             /\ state'.selected = state.selected
             /\ SendsNone
       /\ state'.results # state.results
          => \/ \E its \in StoreItems :
                   \/ DispatchSearchResults(its)
                   \/ DispatchUpgradesEvent(its)
             \/ DispatchSearch /\ Trim(state.query) = <<>> /\ state'.results = <<>>]_vars

\* Results that were sorted by name ascending with both source filters on
\* are still held, in that order, after the sort
\* mode was set to NameDesc, a source filter was switched off and the query
\* was changed to one that no item held matches.
C40_Witness ==
    /\ dispatched = MaxDispatches
    /\ state.sort = "NameDesc"
    /\ state.query = <<"A">>
    /\ ~state.filter_repo
    /\ Len(state.results) = 2
    /\ state.results[1].id = PackageId(<<"a">>, "Repo")
    /\ state.results[2].id = PackageId(<<"b">>, "Aur")
    /\ jobs = <<>>


\* Nothing is left to do: no job waits or is being processed, the UI has
\* emptied the progress, event and watch channels.
Quiescent ==
    /\ jobs = <<>>
    /\ prog = <<>>
    /\ evt = <<>>
    /\ watch = 0
    /\ \A w \in Workers : pc[w] = "recv"

\* The number of SystemChanged a render tick taken now would reduce: those
\* on the event channel, and one more if the watch channel holds a signal.
SystemChangedWaiting ==
    Cardinality({i \in 1..Len(evt) : evt[i].tag = "SystemChanged"})
       + (IF watch > 0 THEN 1 ELSE 0)

ResultEvents ==
    {i \in 1..Len(trace) :
        IsEvent(trace[i]) /\ trace[i].p.tag \in {"SearchResults", "Upgrades"}}

\* The event channel is empty, so every published item list has been
\* reduced, the last published one last: the results held are those of an
\* Upgrades event when that last one is an Upgrades event.  (A Search with an
\* empty query clears the results at once, and its job publishes the empty
\* SearchResults after it.)
ResultsFromUpgrades ==
    /\ ResultEvents # {}
    /\ \E i \in ResultEvents :
          /\ \A k \in ResultEvents : k <= i
          /\ trace[i].p.tag = "Upgrades"

\* A Search job has ended Failed: both providers returned an error and no
\* event was published.
SearchFailedSilently ==
    \E j \in Dequeued :
        /\ submitted[j].kind = "Search"
        /\ Events(j) = {}
        /\ \E t \in Terminals(j) : trace[t].p.stage = "Failed"

\* C39: at rest (no job waiting or in process, every channel emptied by the
\* UI) in_upgrades_view is true exactly when the results held were produced
\* by an Upgrades event.
C39_UpgradesViewAtRest ==
    Quiescent => (state.in_upgrades_view <=> ResultsFromUpgrades)

\* The same statement for the behaviours in which no Search job has failed.
C39_UpgradesViewAtRestUnlessSearchFailed ==
    (Quiescent /\ ~SearchFailedSilently)
        => (state.in_upgrades_view <=> ResultsFromUpgrades)

====
